---- MODULE Spec2Model ----
(***************************************************************************)
(* r4fuse: the download pipeline (queue, single worker, job, child         *)
(* supervision, shutdown) of src/src/download.ts and the write path of the *)
(* FUSE boundary (src/src/index.ts, src/src/index.js, filesystem.ts/.js).  *)
(***************************************************************************)
EXTENDS Integers, Sequences, FiniteSets, TLC

\* ------------------------------------------------------------------ bounds
\* Longest read request, and the furthest read position; longer than any
\* projected file.
MaxRead == 64

\* Replies handed to the callback that the kernel has not taken yet.
MaxInFlight == 1

\* Calls of queueDownload (mount's auto-download and control-file writes).
MaxEnq == 3
\* Tracks returned by the catalog for a channel.
NTracks == 2
\* Characters of the short track titles.
MaxTitle == 3

\* ------------------------------------------------------- program constants
\* fuse-native errno values as the handlers of index.ts/index.js pass them on.
ENOENT == -2
EIO == -5
EROFS == -30

\* sanitizeFilename: substring(0, 50)
MaxNameLength == 50

\* index.ts: process.once("SIGINT", ...) and process.once("SIGTERM", ...), each
\* running shutdown() and with it stopDownloads() at most once.
ShutdownSignals == {"SIGINT", "SIGTERM"}

\* No shutdown() has reached unmount(): fuse is the object mount() made, and
\* fuse.unmount was not called.
NoShutdown ==
    [pc |-> [k \in 1..Cardinality(ShutdownSignals) |-> "stopping"],
     unmountCalls |-> 0,
     fuseNull |-> FALSE,
     exited |-> FALSE]

\* currentDownloadProcess = null
NoProc == <<0, 0>>

\* process.platform !== "win32": FUSE mounts exist on POSIX hosts only.
IsWin32 == FALSE

\* ------------------------------------------------------------ input domains
Slugs == {<<"a">>, <<"b">>, <<"c">>}

\* downloads.txt as loadDownloads returns it: trimmed non-empty lines, in file
\* order, duplicates kept.
DownloadLists == {<< >>, << <<"a">> >>, << <<"a">>, <<"b">> >>, << <<"a">>, <<"a">> >>}

\* Write buffers handed to the FUSE write handler.
Buffers == {<<" ">>, <<"a", "\n">>, <<" ", "b">>}

ControlFile == "/.ctrl/download"

\* The other control paths filesystem.js accepts.
OtherCtrlPaths == {"/.ctrl/cache", "/.ctrl/favorite"}

WritePaths == {ControlFile, "/.ctrl/cache", "/HELP.txt", "/channels/a/ABOUT.txt"}

\* The catalog: channel a has NTracks tracks and channel c one more, with
\* distinct ids and stems none of which is a prefix of another; channel b has
\* none.
TracksOf(slug) ==
    IF slug = <<"a">> THEN NTracks ELSE IF slug = <<"c">> THEN NTracks + 1 ELSE 0

\* Directories a user can name in settings.json, as path components.
ConfigPaths == {<<"mnt">>, <<"music">>, <<"mnt", "music">>}

\* config after loadUserConfig: paths.mountPoint and paths.downloadDir of
\* settings.json, each taken as it is written.
Configs == [mountPoint : ConfigPaths, downloadDir : ConfigPaths]

\* The defaults: ~/mnt/radio4000 and ~/Music/radio4000.
DefaultConfig == [mountPoint |-> <<"mnt">>, downloadDir |-> <<"music">>]

\* downloads.txt of a mount over a download directory of earlier runs.
RerunLists == {<< <<"c">> >>, << <<"a">>, <<"c">> >>, << <<"b">>, <<"a">> >>}

\* What tracksDir of a slug can hold at mount time: for any of the channel's
\* tracks a file named after it, left by an earlier run.
EarlierFiles == [Slugs -> SUBSET (1..(NTracks + 1))]

\* settings.downloader || "yt-dlp"
Downloader == "yt-dlp"

\* What a failing child wrote to stderr and to stdout.
ErrTexts == {<< >>, <<" ", "E", "\n">>}

OutTexts == {<<" ">>, <<"O", "\n">>}

\* ----------------------------------------------------- the catalog's answers
\* Date.parse of created_at / updated_at in ms; Invalid: the field is missing
\* (undefined, null or ""); NotADate: it is a string Date.parse gives NaN for.
Invalid == -1

NotADate == -3

\* The field holds a date: it is there and Date.parse takes it.
ValidDate(date) == date \notin {Invalid, NotADate}

\* Date.now() / 1000, in place of a timestamp that is missing.
NowTime == -2

\* created_at and updated_at of the tracks of the catalog: those of channel a
\* are dates or missing, channel c has strings that are no dates.
TrackDates(slug, i) ==
    IF slug = <<"c">>
    THEN <<[created |-> NotADate, updated |-> 2500],
           [created |-> 1000, updated |-> NotADate],
           [created |-> Invalid, updated |-> Invalid]>>[i]
    ELSE <<[created |-> 1000, updated |-> 2500],
           [created |-> Invalid, updated |-> 3000]>>[i]

\* Track records as readChannelTracks returns them: title (<< >>: none; one
\* element per character, "e_acute" being a letter of two UTF-8 bytes),
\* hashtags of the description and the tags field joined (as written, in
\* order, each a sequence of characters), created_at and updated_at.
Track(title, tags, created, updated) ==
    [title |-> title, tags |-> tags, created |-> created, updated |-> updated]

\* What created_at and updated_at of a record can hold.
DateFields == {Invalid, NotADate, 1000, 2500}

TrackSet ==
    { Track(<<"A">>, << <<"J", "z">> >>, 1000, 2500),
      Track(<<"a", ".">>, << >>, 3000, 3000),
      Track(<< >>, << <<"x">>, <<"J", "z">>, <<"j", "z">> >>, 4000, Invalid),
      Track(<<"e_acute", " ", "b">>, << <<"u", "n", "t", "a", "g", "g", "e", "d">> >>,
            6000, 5000) }

RECURSIVE SeqsUpTo(_, _)
SeqsUpTo(S, n) ==
    IF n = 0 THEN {<< >>}
    ELSE LET shorter == SeqsUpTo(S, n - 1)
         IN  shorter \cup {Append(q, x) : q \in shorter, x \in S}

\* Titles a track can carry: every string of up to MaxTitle characters over
\* letters of both cases, the dash, the space, the dot, a character that is
\* problematic in file names and one that is not; each of them after a run of
\* letters one short of the length limit of a file name; and the titles the
\* tests sanitize.
TitleChars == {"a", "A", "-", " ", ".", "/", "!"}

ShortTitles == SeqsUpTo(TitleChars, MaxTitle)

LongRun == [k \in 1..(MaxNameLength - 1) |-> "a"]

ArtistSongTitle ==
    <<"A", "r", "t", "i", "s", "t", " ", "-", " ", "S", "o", "n", "g", " ",
      "T", "i", "t", "l", "e">>

TrackSpecial ==
    <<"T", "r", "a", "c", "k", "!", "@", "#", "$", "%", "^", "&", "*", "(", ")">>

Titles ==
    ShortTitles \cup {LongRun \o s : s \in ShortTitles} \cup {ArtistSongTitle, TrackSpecial}

\* Error messages of a failing catalog call.
CatalogErrors == {"boom", "ENOENT"}

\* The catalog for channel a: its tracks newest first, its image field, and
\* the error its calls end with ("": none).
Catalogs ==
    [tracks : SeqsUpTo(TrackSet, NTracks), image : {<< >>, <<"i">>},
     err : {""} \cup CatalogErrors]

VARIABLES
    config,                  \* config.ts: mountPoint and downloadDir after loadUserConfig
    mounted,                 \* fuse.mount callback has run
    queue,                   \* download.ts: const queue: string[]
    isProcessing,            \* download.ts: let isProcessing
    isShuttingDown,          \* download.ts: let isShuttingDown
    currentDownloadProcess,  \* download.ts: handle of the tracked child, NoProc = null
    jobs,                    \* running downloadChannel invocations
    timers,                  \* pending setTimeout(() => processQueue(), 1000)
    procs,                   \* children spawned and not yet closed, by handle <<job, track>>
    stops,                   \* stopDownloads invocations, in call order
    shutdowns,               \* shutdown() after stopDownloads: unmount() per call, fuse, exit
    playlists,               \* the playlist files createLocalPlaylist wrote
    files,                   \* tracksDir per slug: tracks with a file starting with their stem
    enqCalls,                \* queueDownload calls made
    pushed,                  \* history: slugs appended to the queue, in order
    startedLog,              \* history: slugs handed to downloadChannel, in order
    nFinished,               \* history: downloadChannel invocations that ended
    lastThrew,               \* history: number of the last job that threw, 0 if none
    lastTrack,               \* history: how the running job's last downloadTrack ended
    lastOp,                  \* result of the last FUSE write at the boundary
    catalog,                 \* what the remote catalog answers (one snapshot)
    fsOut                    \* replies the handlers gave to cb, not yet taken

\* The state of the read-only projection.
fsVars == <<catalog, fsOut>>

coreVars == <<config, shutdowns, playlists, mounted, queue, isProcessing, isShuttingDown, currentDownloadProcess, jobs,
              timers, procs, stops, files, enqCalls, pushed, startedLog, nFinished,
              lastThrew, lastTrack, lastOp>>

vars == <<mounted, queue, isProcessing, isShuttingDown, currentDownloadProcess, jobs,
          timers, procs, stops, files, enqCalls, pushed, startedLog, nFinished,
          lastThrew, lastTrack, lastOp, config, shutdowns, playlists, fsVars>>

\* ------------------------------------------------------------------ helpers
Range(s) == {s[k] : k \in DOMAIN s}

RemoveAt(s, j) == [k \in 1..(Len(s) - 1) |-> IF k < j THEN s[k] ELSE s[k + 1]]

IsWs(c) == c \in {" ", "\n", "\t"}

\* String.prototype.trim on a character sequence.
RECURSIVE TrimLeft(_)
TrimLeft(s) == IF s # << >> /\ IsWs(Head(s)) THEN TrimLeft(Tail(s)) ELSE s

RECURSIVE TrimRight(_)
TrimRight(s) ==
    IF s # << >> /\ IsWs(s[Len(s)]) THEN TrimRight(SubSeq(s, 1, Len(s) - 1)) ELSE s

Trim(s) == TrimRight(TrimLeft(s))

\* buffer.toString('utf-8', 0, length)
BufferToString(buf, len) == SubSeq(buf, 1, len)

\* ------------------------------------------------------------- the worker
\* The part of the module state queueDownload and processQueue work on.
Worker == [queue |-> queue, isProcessing |-> isProcessing, jobs |-> jobs,
           pushed |-> pushed, startedLog |-> startedLog]

\* downloadChannel(channelSlug) up to its first await.
NewJob(slug, n) ==
    [slug |-> slug, n |-> n, pc |-> "fetch", i |-> 0, existing |-> {},
     success |-> 0, failed |-> 0, skipped |-> 0]

ProcessQueue_NoShutdownCheck(w) ==
    IF w.queue = << >>
    THEN [w EXCEPT !.isProcessing = FALSE]
    ELSE [w EXCEPT !.isProcessing = TRUE,
                   !.queue = Tail(@),
                   !.jobs = Append(@, NewJob(Head(w.queue), Len(w.startedLog) + 1)),
                   !.startedLog = Append(@, Head(w.queue))]

ProcessQueue_Lifo(w) ==
    IF isShuttingDown \/ w.queue = << >>
    THEN [w EXCEPT !.isProcessing = FALSE]
    ELSE [w EXCEPT !.isProcessing = TRUE,
                   !.queue = SubSeq(@, 1, Len(@) - 1),
                   !.jobs = Append(@, NewJob(w.queue[Len(w.queue)], Len(w.startedLog) + 1)),
                   !.startedLog = Append(@, w.queue[Len(w.queue)])]

\* processQueue up to `await downloadChannel(channelSlug)`.
ProcessQueue(w) ==
    IF isShuttingDown \/ w.queue = << >>
    THEN [w EXCEPT !.isProcessing = FALSE]
    ELSE [w EXCEPT !.isProcessing = TRUE,
                   !.queue = Tail(@),
                   !.jobs = Append(@, NewJob(Head(w.queue), Len(w.startedLog) + 1)),
                   !.startedLog = Append(@, Head(w.queue))]

QueueDownload_NoDedup(w, slug) ==
    LET w1 == [w EXCEPT !.queue = Append(@, slug), !.pushed = Append(@, slug)]
    IN  IF ~w1.isProcessing THEN ProcessQueue(w1) ELSE w1

QueueDownload_AlwaysProcess(w, slug) ==
    LET w1 == IF slug \notin Range(w.queue)
              THEN [w EXCEPT !.queue = Append(@, slug), !.pushed = Append(@, slug)]
              ELSE w
    IN  ProcessQueue(w1)

\* queueDownload(channelSlug)
QueueDownload(w, slug) ==
    LET w1 == IF slug \notin Range(w.queue)
              THEN [w EXCEPT !.queue = Append(@, slug), !.pushed = Append(@, slug)]
              ELSE w
    IN  IF ~w1.isProcessing THEN ProcessQueue(w1) ELSE w1

\* for (const channelSlug of downloads) queueDownload(channelSlug)
RECURSIVE QueueAll(_, _)
QueueAll(w, list) ==
    IF list = << >> THEN w ELSE QueueAll(QueueDownload(w, Head(list)), Tail(list))

SetWorker(w) ==
    /\ queue' = w.queue
    /\ isProcessing' = w.isProcessing
    /\ jobs' = w.jobs
    /\ pushed' = w.pushed
    /\ startedLog' = w.startedLog

\* ---------------------------------------------------------------- Init
\* The times of a file that fs.utimes did not set: those the download left.
Kept == -4

NoStamp == [atime |-> Kept, mtime |-> Kept]

NoTrack ==
    [res |-> "none", out |-> "none", cancelled |-> FALSE, post |-> FALSE, msg |-> << >>,
     stamp |-> NoStamp]

\* Everything but the download directory and the catalog.
InitRest ==
    /\ mounted = FALSE
    /\ queue = << >>
    /\ isProcessing = FALSE
    /\ isShuttingDown = FALSE
    /\ currentDownloadProcess = NoProc
    /\ jobs = << >>
    /\ timers = 0
    /\ procs = << >>
    /\ stops = << >>
    /\ shutdowns = NoShutdown
    /\ playlists = {}
    /\ enqCalls = 0
    /\ pushed = << >>
    /\ startedLog = << >>
    /\ nFinished = 0
    /\ lastThrew = 0
    /\ lastTrack = NoTrack
    /\ lastOp = [op |-> "none", path |-> "", result |-> 0]
    /\ fsOut = {}

InitCore ==
    /\ InitRest
    /\ files = [s \in Slugs |-> {}]
    /\ config = DefaultConfig

Init ==
    /\ InitCore
    /\ catalog = [tracks |-> << >>, image |-> << >>, err |-> ""]

\* The mount facing any catalog snapshot.
InitFs ==
    /\ InitCore
    /\ catalog \in Catalogs

\* The mount facing a channel of one track, of any title.
InitNames ==
    /\ InitCore
    /\ \E title \in Titles :
           catalog = [tracks |-> <<Track(title, << >>, 1000, 1000)>>,
                      image |-> << >>, err |-> ""]

\* The mount facing a channel of one track, with any dates.
InitDates ==
    /\ InitCore
    /\ \E created \in DateFields, updated \in DateFields, tags \in {<< >>, << <<"x">> >>} :
           catalog = [tracks |-> <<Track(<<"A">>, tags, created, updated)>>,
                      image |-> << >>, err |-> ""]

\* The mount over a download directory that earlier runs left files in.
InitRerun ==
    /\ InitRest
    /\ files \in {f \in EarlierFiles : \A s \in Slugs : f[s] \subseteq 1..TracksOf(s)}
    /\ catalog = [tracks |-> << >>, image |-> << >>, err |-> ""]
    /\ config = DefaultConfig

\* The start with any settings.json.
InitConfig ==
    /\ InitRest
    /\ files = [s \in Slugs |-> {}]
    /\ catalog = [tracks |-> << >>, image |-> << >>, err |-> ""]
    /\ config \in Configs

\* ------------------------------------------------------------ mount, write
\* index.ts mount(): the fuse.mount callback queues every slug of downloads.txt.
Mount(downloads) ==
    /\ ~mounted
    /\ mounted' = TRUE
    /\ SetWorker(QueueAll(Worker, downloads))
    /\ enqCalls' = Len(downloads)
    /\ UNCHANGED <<isShuttingDown, currentDownloadProcess, timers, procs, stops, files,
                   nFinished, lastThrew, lastTrack, lastOp, config, shutdowns, playlists, fsVars>>

FsWriteJS_NoTrim(w, path, buf, len) ==
    LET content == BufferToString(buf, len)
    IN  IF path = ControlFile
        THEN [w |-> IF content # << >> THEN QueueDownload(w, content) ELSE w,
              err |-> "", bytes |-> len]
        ELSE IF path \in OtherCtrlPaths
        THEN [w |-> w, err |-> "", bytes |-> len]
        ELSE [w |-> w, err |-> "EROFS", bytes |-> 0]

\* filesystem.js write(path, fd, buffer, length, position): the worker state it
\* leaves and what it returns (bytes) or throws (err).
FsWriteJS(w, path, buf, len) ==
    LET content == Trim(BufferToString(buf, len))
    IN  IF path = ControlFile
        THEN [w |-> IF content # << >> THEN QueueDownload(w, content) ELSE w,
              err |-> "", bytes |-> len]
        ELSE IF path \in OtherCtrlPaths
        THEN [w |-> w, err |-> "", bytes |-> len]
        ELSE [w |-> w, err |-> "EROFS", bytes |-> 0]

\* filesystem.ts write(): throws for every path.
FsWriteTS(w, path, buf, len) == [w |-> w, err |-> "EROFS", bytes |-> 0]

\* Fuse[err.message] || Fuse.EIO  (index.js)
ErrnoJS(msg) ==
    IF msg = "ENOENT" THEN ENOENT ELSE IF msg = "EROFS" THEN EROFS ELSE EIO

\* err.message === 'ENOENT' ? -2 : -5  (index.ts)
ErrnoTS(msg) == IF msg = "ENOENT" THEN ENOENT ELSE EIO

\* Calls of queueDownload a write makes.
WriteEnqueues(path, buf, len) ==
    IF path = ControlFile /\ Trim(BufferToString(buf, len)) # << >> THEN 1 ELSE 0

\* A write reaches filesystem.js write(); what the FUSE callback gets is left out.
FsWrite(path, buf, len) ==
    /\ mounted
    /\ enqCalls + WriteEnqueues(path, buf, len) <= MaxEnq
    /\ SetWorker(FsWriteJS(Worker, path, buf, len).w)
    /\ enqCalls' = enqCalls + WriteEnqueues(path, buf, len)
    /\ UNCHANGED <<mounted, isShuttingDown, currentDownloadProcess, timers, procs,
                   stops, files, nFinished, lastThrew, lastTrack, lastOp, config, shutdowns, playlists, fsVars>>

\* index.js write handler: fs.write(...).then(cb).catch(err => cb(Fuse[err.message] || Fuse.EIO))
FuseWriteJS(path, buf, len) ==
    LET r == FsWriteJS(Worker, path, buf, len)
    IN  /\ mounted
        /\ enqCalls + WriteEnqueues(path, buf, len) <= MaxEnq
        /\ SetWorker(r.w)
        /\ enqCalls' = enqCalls + WriteEnqueues(path, buf, len)
        /\ lastOp' = [op |-> "write_js", path |-> path,
                      result |-> IF r.err = "" THEN r.bytes ELSE ErrnoJS(r.err)]
        /\ UNCHANGED <<mounted, isShuttingDown, currentDownloadProcess, timers, procs,
                       stops, files, nFinished, lastThrew, lastTrack, config, shutdowns, playlists, fsVars>>

\* index.ts write handler: fs.write(...).then(n => cb(0, n)).catch(err => cb(-2 or -5))
FuseWriteTS(path, buf, len) ==
    LET r == FsWriteTS(Worker, path, buf, len)
    IN  /\ mounted
        /\ SetWorker(r.w)
        /\ lastOp' = [op |-> "write_ts", path |-> path,
                      result |-> IF r.err = "" THEN r.bytes ELSE ErrnoTS(r.err)]
        /\ UNCHANGED <<mounted, isShuttingDown, currentDownloadProcess, timers, procs,
                       stops, files, enqCalls, nFinished, lastThrew, lastTrack, config, shutdowns, playlists, fsVars>>

\* The setTimeout callback of processQueue fires.
TimerFire ==
    /\ timers > 0
    /\ timers' = timers - 1
    /\ SetWorker(ProcessQueue(Worker))
    /\ UNCHANGED <<mounted, isShuttingDown, currentDownloadProcess, procs, stops, files,
                   enqCalls, nFinished, lastThrew, lastTrack, lastOp, config, shutdowns, playlists, fsVars>>

\* ----------------------------------------------------------- the download job
SetJob(j, rec) == [jobs EXCEPT ![j] = rec]

\* Handle of the child spawned for the current track of job J.
HandleOf(J) == <<J.n, J.i>>

\* The for loop of downloadChannel from track i on: tracks with a matching file
\* in existingFiles are counted as skipped without leaving the event-loop turn;
\* the loop stops at the first track to download (downloadTrack awaits
\* loadSettings) or past the last one (createLocalPlaylist). J.existing is
\* existingFiles: the tracks with a matching file when the job listed tracksDir.
LoopFrom_NoSkip(J, i) ==
    IF i > TracksOf(J.slug) THEN [J EXCEPT !.i = i, !.pc = "playlist"]
    ELSE [J EXCEPT !.i = i, !.pc = "settings"]

RECURSIVE LoopFrom(_, _)
LoopFrom(J, i) ==
    IF i > TracksOf(J.slug) THEN [J EXCEPT !.i = i, !.pc = "playlist"]
    ELSE IF i \in J.existing THEN LoopFrom([J EXCEPT !.skipped = @ + 1], i + 1)
    ELSE [J EXCEPT !.i = i, !.pc = "settings"]

Advance(J) == LoopFrom(J, J.i + 1)

\* res: what downloadTrack settled with; out: the counter downloadChannel bumped;
\* cancelled: stopDownloads ran while the child was alive; post: the
\* post-processing chain ran; msg: err.message the catch of downloadChannel
\* logged, << >> if it caught nothing; stamp: the times of the track's file
\* after setFileTimestamps.
TrackEntry(res, out, cancelled, post, msg, stamp) ==
    [res |-> res, out |-> out, cancelled |-> cancelled, post |-> post, msg |-> msg,
     stamp |-> stamp]

AfterJob_NoTimer(j) ==
    /\ jobs' = RemoveAt(jobs, j)
    /\ nFinished' = nFinished + 1
    /\ timers' = timers

\* processQueue after `await downloadChannel` returned or threw.
AfterJob(j) ==
    /\ jobs' = RemoveAt(jobs, j)
    /\ nFinished' = nFinished + 1
    /\ timers' = IF ~isShuttingDown THEN timers + 1 ELSE timers

\* downloadChannel: readChannelTracks returned a non-empty list; directories are
\* made, the status is rebuilt, tracksDir is listed once into existingFiles and
\* the loop starts.
FetchTracks(j) ==
    /\ jobs[j].pc = "fetch"
    /\ TracksOf(jobs[j].slug) > 0
    /\ jobs' = SetJob(j, LoopFrom([jobs[j] EXCEPT !.existing = files[jobs[j].slug]], 1))
    /\ UNCHANGED <<mounted, queue, isProcessing, isShuttingDown, currentDownloadProcess,
                   timers, procs, stops, files, enqCalls, pushed, startedLog, nFinished,
                   lastThrew, lastTrack, lastOp, config, shutdowns, playlists, fsVars>>

\* path.join(config.downloadDir, channelSlug) and path.join(channelDir, "tracks")
ChannelDirOf(slug) == config.downloadDir \o slug

TracksDirOf(slug) == ChannelDirOf(slug) \o <<"tracks">>

\* createLocalPlaylist(channelSlug, channelDir, tracks): after #EXTM3U, for
\* each track in the order of the list an entry: the #EXTINF line of the
\* track and, when a file of the directory has its stem, the line of that
\* file; written to playlist.m3u of the directory it was handed.
CreateLocalPlaylist(slug, dir) ==
    [path |-> dir \o <<"playlist.m3u">>,
     entries |-> [i \in 1..TracksOf(slug) |-> [extinf |-> i, file |-> i \in files[slug]]]]

\* downloadChannel returns: no tracks for the slug, or the playlist was written
\* by createLocalPlaylist(channelSlug, tracksDir, tracks).
JobReturn(j) ==
    /\ \/ jobs[j].pc = "fetch" /\ TracksOf(jobs[j].slug) = 0
       \/ jobs[j].pc = "playlist"
    /\ AfterJob(j)
    /\ lastTrack' = NoTrack
    /\ playlists' = IF jobs[j].pc = "playlist"
                    THEN {f \in playlists :
                             f.path # CreateLocalPlaylist(jobs[j].slug, TracksDirOf(jobs[j].slug)).path}
                         \cup {CreateLocalPlaylist(jobs[j].slug, TracksDirOf(jobs[j].slug))}
                    ELSE playlists
    /\ UNCHANGED <<mounted, queue, isProcessing, isShuttingDown, currentDownloadProcess,
                   procs, stops, files, enqCalls, pushed, startedLog, lastThrew, lastOp,
                   config, shutdowns, fsVars>>

\* downloadChannel throws (catalog error, mkdir or playlist I/O error); the catch
\* of processQueue takes it.
JobThrow(j) ==
    /\ jobs[j].pc \in {"fetch", "playlist"}
    /\ AfterJob(j)
    /\ lastThrew' = jobs[j].n
    /\ lastTrack' = NoTrack
    /\ UNCHANGED <<mounted, queue, isProcessing, isShuttingDown, currentDownloadProcess,
                   procs, stops, files, enqCalls, pushed, startedLog, lastOp, config, shutdowns, playlists, fsVars>>

\* A child as spawn returns it. sigs: the signals delivered to it, in order;
\* atStop: stopDownloads ran while it was alive and tracked.
NewProc ==
    [st |-> "alive", hasPid |-> TRUE, killed |-> FALSE, sigs |-> << >>, atStop |-> FALSE]

Without(ps, h) == [x \in (DOMAIN ps) \ {h} |-> ps[x]]

\* downloadTrack: spawn(downloader, args) succeeds; currentDownloadProcess = proc.
SpawnChild(j) ==
    /\ jobs[j].pc = "settings"
    /\ procs' = (HandleOf(jobs[j]) :> NewProc) @@ procs
    /\ currentDownloadProcess' = HandleOf(jobs[j])
    /\ jobs' = SetJob(j, [jobs[j] EXCEPT !.pc = "child"])
    /\ UNCHANGED <<mounted, queue, isProcessing, isShuttingDown, timers, stops, files,
                   enqCalls, pushed, startedLog, nFinished, lastThrew, lastTrack, lastOp, config, shutdowns, playlists, fsVars>>

\* new Error(`${downloader} not found. Please install it.`)
NotFoundMsg == <<Downloader, " not found. Please install it.">>

\* downloadTrack: the binary is missing. spawn returns a handle without pid and
\* the 'error' event follows on the next tick, before any timer, signal or I/O
\* callback: the handle is tracked and cleared, the promise rejects, and
\* downloadChannel's catch counts the track as failed.
SpawnMissing(j) ==
    /\ jobs[j].pc = "settings"
    /\ currentDownloadProcess' = NoProc
    /\ jobs' = SetJob(j, Advance([jobs[j] EXCEPT !.failed = @ + 1]))
    /\ lastTrack' = TrackEntry("reject", "failed", FALSE, FALSE, NotFoundMsg, NoStamp)
    /\ UNCHANGED <<mounted, queue, isProcessing, isShuttingDown, timers, procs, stops,
                   files, enqCalls, pushed, startedLog, nFinished, lastThrew, lastOp, config, shutdowns, playlists, fsVars>>

\* The jobs awaiting child h, as <<slug, track>>.
Owners(h) ==
    {<<jobs[k].slug, jobs[k].i>> :
        k \in {x \in DOMAIN jobs : jobs[x].pc = "child" /\ HandleOf(jobs[x]) = h}}

\* The downloader leaves a file (complete or partial) named after the track's stem.
WithFile(fs, h, wrote) ==
    IF wrote /\ Owners(h) # {}
    THEN LET o == CHOOSE x \in Owners(h) : TRUE
         IN  [fs EXCEPT ![o[1]] = @ \cup {o[2]}]
    ELSE fs

\* The child ends by itself, leaving a file or not.
ChildExit(j, wrote) ==
    /\ jobs[j].pc = "child"
    /\ procs[HandleOf(jobs[j])].st = "alive"
    /\ procs' = [procs EXCEPT ![HandleOf(jobs[j])] = [@ EXCEPT !.st = "exited"]]
    /\ files' = WithFile(files, HandleOf(jobs[j]), wrote)
    /\ UNCHANGED <<mounted, queue, isProcessing, isShuttingDown, currentDownloadProcess,
                   jobs, timers, stops, enqCalls, pushed, startedLog, nFinished, lastThrew,
                   lastTrack, lastOp, config, shutdowns, playlists, fsVars>>

\* The steps of the post-processing chain that can meet an I/O error: the ID3
\* write, utimes, the creation of a tag directory, the creation of a symlink
\* (the last two only run with features.organizeByTags, the default).
PostFaults == {"none", "id3", "utimes", "mkdir", "symlink"}

\* writeTrackMetadata and setFileTimestamps catch and log every error, and
\* organizeTrackByTags catches the symlink's; its fs.mkdir calls are not inside
\* a try, so their error is thrown to downloadChannel.
Thrown(fault) == fault = "mkdir"

\* The message of the error fs.mkdir throws.
MkdirMsg == <<"EACCES: permission denied, mkdir">>

\* What the child reported: exit code, whether its output carried the "has
\* already been downloaded" marker, whether a file path was captured from it.
\* stderr, stdout: the two texts of a child that failed without the marker (the
\* close handler reads them in no other case).  fault: the step of the
\* post-processing chain that meets an I/O error, if the chain runs.
\* Fields the handling does not read in a case have one value in it: exit
\* code 0; a code that is not 0 with the marker; such a code without it.
ReportSet ==
    [code : {0}, marker : {FALSE}, captured : BOOLEAN,
     stderr : {<< >>}, stdout : {<<" ">>}, fault : PostFaults]
    \cup [code : {1}, marker : {TRUE}, captured : BOOLEAN,
          stderr : {<< >>}, stdout : {<<" ">>}, fault : PostFaults]
    \cup [code : {1}, marker : {FALSE}, captured : {FALSE},
          stderr : ErrTexts, stdout : OutTexts, fault : {"none"}]

\* A child ended by a signal has no exit code 0 and no marker.
Reports(p) ==
    {r \in ReportSet : p.st = "killed" => r.code # 0 /\ ~r.marker}

CodeText(code) == IF code = 0 THEN "0" ELSE "1"

ErrorMsg_StdoutFirst(r) ==
    IF Trim(r.stdout) # << >> THEN Trim(r.stdout)
    ELSE IF Trim(r.stderr) # << >> THEN Trim(r.stderr)
    ELSE <<Downloader, " exited with code ", CodeText(r.code)>>

\* stderr.trim() || stdout.trim() || `${downloader} exited with code ${code}`
ErrorMsg(r) ==
    IF Trim(r.stderr) # << >> THEN Trim(r.stderr)
    ELSE IF Trim(r.stdout) # << >> THEN Trim(r.stdout)
    ELSE <<Downloader, " exited with code ", CodeText(r.code)>>

\* What the close handler of downloadTrack settles the promise with: the path
\* of the track's file ("file"), null, an error ("reject"), or, when the marker
\* line of stdout gave a path, that path joined to outputDir ("joined"). The
\* downloader names files by the --output template, which starts with
\* outputDir; the Destination line is taken as it is, the marker line is joined
\* to outputDir once more.
CloseResult(r, hasFile) ==
    IF isShuttingDown THEN "null"
    ELSE IF r.code = 0 THEN (IF r.captured \/ hasFile THEN "file" ELSE "null")
    ELSE IF r.marker THEN (IF r.captured THEN "joined"
                           ELSE IF hasFile THEN "file" ELSE "null")
    ELSE "reject"

\* downloadChannel's handling of the settled promise: the outcome counted and
\* whether the post-processing chain (writeTrackMetadata, setFileTimestamps,
\* organizeTrackByTags) ran.
TrackOutcome_JoinedUncounted(res, hasFile, fault) ==
    IF res = "joined" THEN [out |-> "none", post |-> FALSE]
    ELSE IF res = "file" /\ hasFile
        THEN [out |-> IF Thrown(fault) THEN "failed" ELSE "downloaded", post |-> TRUE]
    ELSE IF res = "null" /\ hasFile
        THEN [out |-> IF Thrown(fault) THEN "failed" ELSE "skipped", post |-> TRUE]
    ELSE [out |-> "failed", post |-> FALSE]

\* What fs.utimes does with a time that is NaN (the getTime() of an Invalid
\* Date): libuv before 1.50 converts it to a timespec the kernel rejects with
\* EINVAL, libuv from 1.50 on leaves that time of the file as it is.
NanOutcomes == {"einval", "omit"}

\* The outcomes for the dates d of a track: one when no time is NaN.
NanFor(d) == IF NotADate \in {d.created, d.updated} THEN NanOutcomes ELSE {"omit"}

\* track.created_at ? new Date(track.created_at) : new Date()
DateOrNow(date) == IF date # Invalid THEN date ELSE NowTime

\* setFileTimestamps(filePath, track): fs.utimes(filePath, updatedTime,
\* createdTime), atime first; an error of utimes is caught and logged.
SetFileTimestamps(created, updated, nan) ==
    LET createdTime == DateOrNow(created)
        updatedTime == DateOrNow(updated)
        Set(time) == IF time = NotADate THEN Kept ELSE time
    IN  IF NotADate \in {createdTime, updatedTime} /\ nan = "einval" THEN NoStamp
        ELSE [atime |-> Set(updatedTime), mtime |-> Set(createdTime)]

\* An error thrown inside the chain is caught by the per-track catch, which
\* counts the track as failed.
TrackOutcome(res, hasFile, fault) ==
    IF res = "joined" THEN [out |-> "failed", post |-> FALSE]
    ELSE IF res = "file" THEN
        (IF hasFile THEN [out |-> IF Thrown(fault) THEN "failed" ELSE "downloaded",
                          post |-> TRUE]
         ELSE [out |-> "failed", post |-> FALSE])
    ELSE IF res = "null" THEN
        (IF hasFile THEN [out |-> IF Thrown(fault) THEN "failed" ELSE "skipped",
                          post |-> TRUE]
         ELSE [out |-> "failed", post |-> FALSE])
    ELSE [out |-> "failed", post |-> FALSE]

\* The 'close' event of the child (it reported r), and downloadChannel's handling
\* of the settled track up to the next track's downloadTrack; nothing else
\* touches what that handling reads.
ChildClose(j, r) ==
    /\ jobs[j].pc = "child"
    /\ procs[HandleOf(jobs[j])].st \in {"exited", "killed"}
    /\ r \in Reports(procs[HandleOf(jobs[j])])
    /\ \E nan \in NanFor(TrackDates(jobs[j].slug, jobs[j].i)) :
       LET J == jobs[j]
           h == HandleOf(J)
           p == procs[h]
           hasFile == J.i \in files[J.slug]
           res == CloseResult(r, hasFile)
           o == TrackOutcome(res, hasFile, r.fault)
           d == TrackDates(J.slug, J.i)
           stamp == IF o.post /\ r.fault # "utimes"
                    THEN SetFileTimestamps(d.created, d.updated, nan) ELSE NoStamp
           J1 == [J EXCEPT !.success = IF o.out = "downloaded" THEN @ + 1 ELSE @,
                           !.skipped = IF o.out = "skipped" THEN @ + 1 ELSE @,
                           !.failed = IF o.out = "failed" THEN @ + 1 ELSE @]
       IN  /\ currentDownloadProcess' =
                  IF currentDownloadProcess = h THEN NoProc ELSE currentDownloadProcess
           /\ procs' = Without(procs, h)
           /\ lastTrack' = TrackEntry(res, o.out, isShuttingDown /\ p.atStop, o.post,
                                      IF res = "reject" THEN ErrorMsg(r)
                                      ELSE IF o.post /\ Thrown(r.fault) THEN MkdirMsg
                                      ELSE << >>,
                                      stamp)
           /\ jobs' = SetJob(j, Advance(J1))
    /\ UNCHANGED <<mounted, queue, isProcessing, isShuttingDown, timers, stops, files,
                   enqCalls, pushed, startedLog, nFinished, lastThrew, lastOp, config, shutdowns, playlists, fsVars>>

\* ------------------------------------------------------------- stopDownloads
Alive(ps, h) == h \in DOMAIN ps /\ ps[h].st = "alive"

\* Signal sig reaches child h: recorded, and the child ends (dies) or runs on.
Signalled(ps, h, sig, dies) ==
    IF Alive(ps, h)
    THEN [ps EXCEPT ![h] = [@ EXCEPT !.sigs = Append(@, sig),
                                     !.st = IF dies THEN "killed" ELSE @]]
    ELSE ps

\* ChildProcess.kill(sig) returned true: .killed is set.
MarkKilled(ps, h) == [ps EXCEPT ![h] = [@ EXCEPT !.killed = TRUE]]

MarkAtStop(ps, h) ==
    IF Alive(ps, h) THEN [ps EXCEPT ![h] = [@ EXCEPT !.atStop = TRUE]] ELSE ps

\* stopDownloads() up to its first await: the flag, the queue, and SIGTERM to the
\* process group of the tracked child (grpOk: process.kill(-pid) did not throw),
\* else to the child itself.
StopBegin ==
    /\ mounted
    /\ Len(stops) < Cardinality(ShutdownSignals)
    /\ isShuttingDown' = TRUE
    /\ queue' = << >>
    /\ \E grpOk \in BOOLEAN, dies \in BOOLEAN, wrote \in BOOLEAN :
         LET cur == currentDownloadProcess
             hasChild == cur # NoProc
             noPid == hasChild /\ ~procs[cur].hasPid
             try == hasChild /\ ~noPid
             viaGroup == try /\ ~IsWin32 /\ grpOk
             viaLeader == try /\ ~viaGroup /\ Alive(procs, cur)
             ps0 == IF hasChild THEN MarkAtStop(procs, cur) ELSE procs
             ps1 == IF viaLeader THEN MarkKilled(ps0, cur) ELSE ps0
             hit == (viaGroup \/ viaLeader) /\ Alive(procs, cur) /\ dies
         IN  /\ procs' = IF viaGroup \/ viaLeader
                         THEN Signalled(ps1, cur, "SIGTERM", dies) ELSE ps1
             /\ files' = IF hit THEN WithFile(files, cur, wrote) ELSE files
             /\ stops' = Append(stops,
                    [pc |-> IF ~hasChild THEN "wait100"
                            ELSE IF noPid THEN "returned" ELSE "wait500",
                     h |-> IF try THEN cur ELSE NoProc,
                     aliveAt500 |-> FALSE,
                     killSent |-> FALSE,
                     waited |-> FALSE])
    /\ UNCHANGED <<mounted, isProcessing, currentDownloadProcess, jobs, timers, enqCalls,
                   pushed, startedLog, nFinished, lastThrew, lastTrack, lastOp, config, shutdowns, playlists, fsVars>>

\* stopDownloads() after the 500 ms wait: when a child is tracked and its .killed
\* is unset, SIGKILL to the group of the recorded pid, else to whatever child is
\* tracked now; then the reference is cleared and the 100 ms wait starts.
StopAfter500(k) ==
    /\ stops[k].pc = "wait500"
    /\ \E grpOk \in BOOLEAN, wrote \in BOOLEAN :
         LET cur == currentDownloadProcess
             pid == stops[k].h
             try == cur # NoProc /\ ~procs[cur].killed /\ pid # NoProc
             viaGroup == try /\ ~IsWin32 /\ grpOk
             viaLeader == try /\ ~viaGroup /\ Alive(procs, cur)
             target == IF viaGroup THEN pid ELSE cur
             ps1 == IF viaLeader THEN MarkKilled(procs, cur) ELSE procs
             hit == (viaGroup \/ viaLeader) /\ Alive(procs, target)
         IN  /\ procs' = IF viaGroup \/ viaLeader
                         THEN Signalled(ps1, target, "SIGKILL", TRUE) ELSE ps1
             /\ files' = IF hit THEN WithFile(files, target, wrote) ELSE files
             /\ stops' = [stops EXCEPT ![k] =
                    [@ EXCEPT !.pc = "wait100",
                              !.aliveAt500 = Alive(procs, pid),
                              !.killSent = hit /\ target = pid]]
    /\ currentDownloadProcess' = NoProc
    /\ UNCHANGED <<mounted, queue, isProcessing, isShuttingDown, jobs, timers, enqCalls,
                   pushed, startedLog, nFinished, lastThrew, lastTrack, lastOp, config, shutdowns, playlists, fsVars>>

\* stopDownloads() after the 100 ms wait: it returns.
StopAfter100(k) ==
    /\ stops[k].pc = "wait100"
    /\ stops' = [stops EXCEPT ![k] = [@ EXCEPT !.pc = "returned", !.waited = TRUE]]
    /\ UNCHANGED <<mounted, queue, isProcessing, isShuttingDown, currentDownloadProcess,
                   jobs, timers, procs, files, enqCalls, pushed, startedLog, nFinished,
                   lastThrew, lastTrack, lastOp, config, shutdowns, playlists, fsVars>>

\* ------------------------------------------------- shutdown after stopDownloads
\* unmount() of the k-th shutdown(), entered when its stopDownloads() has
\* returned: "Not mounted" when fuse is null, else fuse.unmount(cb) is called.
UnmountCall(k) ==
    /\ stops[k].pc = "returned"
    /\ shutdowns.pc[k] = "stopping"
    /\ shutdowns' =
           IF shutdowns.fuseNull
           THEN [shutdowns EXCEPT !.pc[k] = "exit"]
           ELSE [shutdowns EXCEPT !.pc[k] = "unmounting", !.unmountCalls = @ + 1]
    /\ UNCHANGED <<mounted, queue, isProcessing, isShuttingDown, currentDownloadProcess,
                   jobs, timers, procs, stops, files, enqCalls, pushed, startedLog,
                   nFinished, lastThrew, lastTrack, lastOp, config, playlists, fsVars>>

\* The callback of fuse.unmount: without an error fuse = null and the promise
\* resolves; with one it rejects, and shutdown() ends there.
UnmountDone(k, err) ==
    /\ shutdowns.pc[k] = "unmounting"
    /\ shutdowns' =
           IF err THEN [shutdowns EXCEPT !.pc[k] = "rejected"]
           ELSE [shutdowns EXCEPT !.pc[k] = "exit", !.fuseNull = TRUE]
    /\ UNCHANGED <<mounted, queue, isProcessing, isShuttingDown, currentDownloadProcess,
                   jobs, timers, procs, stops, files, enqCalls, pushed, startedLog,
                   nFinished, lastThrew, lastTrack, lastOp, config, playlists, fsVars>>

\* process.exit(0) at the end of the k-th shutdown().
Exit(k) ==
    /\ shutdowns.pc[k] = "exit"
    /\ shutdowns' = [shutdowns EXCEPT !.pc[k] = "exited", !.exited = TRUE]
    /\ UNCHANGED <<mounted, queue, isProcessing, isShuttingDown, currentDownloadProcess,
                   jobs, timers, procs, stops, files, enqCalls, pushed, startedLog,
                   nFinished, lastThrew, lastTrack, lastOp, config, playlists, fsVars>>

\* ------------------------------------------- the projection (filesystem.ts)
\* A path is the sequence of its components (path.split("/").filter(Boolean));
\* a component is a sequence of characters, with fixed names and the extension
\* of a file name kept as one element each.
Name(str) == <<str>>

None == << >>

\* parsePath: parts[k - 1], None standing for undefined.
Part(path, k) == IF Len(path) >= k THEN path[k] ELSE None

EndsTxt(c) == c # << >> /\ c[Len(c)] = ".txt"

\* file.replace(/\.txt$/, "")
Stem(c) == SubSeq(c, 1, Len(c) - 1)

Txt(stem) == Append(stem, ".txt")

UntaggedName == <<"u", "n", "t", "a", "g", "g", "e", "d">>

UntitledName == <<"u", "n", "t", "i", "t", "l", "e", "d">>

\* String.prototype.toLowerCase on one character.
UpperCase ==
    <<"A", "B", "C", "D", "E", "F", "G", "H", "I", "J", "K", "L", "M",
      "N", "O", "P", "Q", "R", "S", "T", "U", "V", "W", "X", "Y", "Z">>

LowerCase ==
    <<"a", "b", "c", "d", "e", "f", "g", "h", "i", "j", "k", "l", "m",
      "n", "o", "p", "q", "r", "s", "t", "u", "v", "w", "x", "y", "z">>

Lower(c) ==
    IF \E k \in DOMAIN UpperCase : UpperCase[k] = c
    THEN LowerCase[CHOOSE k \in DOMAIN UpperCase : UpperCase[k] = c]
    ELSE c

LowerAll(str) == [k \in DOMAIN str |-> Lower(str[k])]

\* sanitizeFilename: the characters replaced by a dash, and the ones a run of
\* which collapses into one dash.
Problematic == {"/", "\\", ":", "?", "\"", "*", "<", ">", "|"}

DashOrSpace == {"-", " ", "\t", "\n"}

RECURSIVE DropDots(_)
DropDots(str) ==
    IF str = << >> THEN << >>
    ELSE IF Head(str) = "." THEN DropDots(Tail(str))
    ELSE <<Head(str)>> \o DropDots(Tail(str))

\* Every dash or whitespace character becomes a dash of its own.
Collapse_Each(str) == [k \in DOMAIN str |-> IF str[k] \in DashOrSpace THEN "-" ELSE str[k]]

RECURSIVE Collapse(_)
Collapse(str) ==
    IF str = << >> THEN << >>
    ELSE IF Head(str) \in DashOrSpace
    THEN IF Tail(str) # << >> /\ Head(Tail(str)) \in DashOrSpace
         THEN Collapse(Tail(str))
         ELSE <<"-">> \o Collapse(Tail(str))
    ELSE <<Head(str)>> \o Collapse(Tail(str))

RECURSIVE StripLeft(_)
StripLeft(str) ==
    IF str # << >> /\ Head(str) \in DashOrSpace THEN StripLeft(Tail(str)) ELSE str

RECURSIVE StripRight(_)
StripRight(str) ==
    IF str # << >> /\ str[Len(str)] \in DashOrSpace
    THEN StripRight(SubSeq(str, 1, Len(str) - 1)) ELSE str

\* sanitizeFilename(str)
SanitizeFilename(str) ==
    IF str = << >> THEN UntitledName
    ELSE LET dashed == [k \in DOMAIN str |->
                           IF str[k] \in Problematic THEN "-" ELSE str[k]]
             stripped == StripRight(StripLeft(Collapse(DropDots(dashed))))
             lowered == LowerAll(stripped)
             cut == SubSeq(lowered, 1, IF Len(lowered) < MaxNameLength THEN Len(lowered)
                                       ELSE MaxNameLength)
         IN  IF cut = << >> THEN UntitledName ELSE cut

\* sanitizeFilename(t.title || "untitled")
StemOf(t) == SanitizeFilename(IF t.title = << >> THEN UntitledName ELSE t.title)

RECURSIVE Dedup(_)
Dedup(q) ==
    IF q = << >> THEN << >>
    ELSE LET front == Dedup(SubSeq(q, 1, Len(q) - 1))
             last == q[Len(q)]
         IN  IF \E k \in DOMAIN front : front[k] = last THEN front ELSE Append(front, last)

\* extractTagsFromTrack(track)
ExtractTagsFromTrack(t) == Dedup([k \in DOMAIN t.tags |-> LowerAll(t.tags[k])])

\* tags.length > 0 ? tags : ["untitled"]  (getattr of a tag directory)
TagsOrUntitled(t) ==
    IF ExtractTagsFromTrack(t) # << >> THEN ExtractTagsFromTrack(t) ELSE <<UntitledName>>

\* The fallback written as untitled.
TagsOrUntagged_Untitled(t) ==
    IF ExtractTagsFromTrack(t) # << >> THEN ExtractTagsFromTrack(t) ELSE <<UntitledName>>

\* tags.length > 0 ? tags : ["untagged"]
TagsOrUntagged(t) ==
    IF ExtractTagsFromTrack(t) # << >> THEN ExtractTagsFromTrack(t) ELSE <<UntaggedName>>

\* UTF-16 code unit of a character.
Code(c) ==
    CASE c = "J" -> 74 [] c = "a" -> 97 [] c = "d" -> 100 [] c = "e" -> 101
      [] c = "g" -> 103 [] c = "j" -> 106 [] c = "n" -> 110 [] c = "t" -> 116
      [] c = "u" -> 117 [] c = "x" -> 120 [] c = "z" -> 122 [] OTHER -> 63

\* The order Array.prototype.sort() puts strings in.
RECURSIVE Before(_, _)
Before(x, y) ==
    IF x = << >> THEN y # << >>
    ELSE IF y = << >> THEN FALSE
    ELSE IF Code(Head(x)) # Code(Head(y)) THEN Code(Head(x)) < Code(Head(y))
    ELSE Before(Tail(x), Tail(y))

RECURSIVE Insert(_, _)
Insert(q, x) ==
    IF q = << >> THEN <<x>>
    ELSE IF Before(x, Head(q)) THEN <<x>> \o q
    ELSE <<Head(q)>> \o Insert(Tail(q), x)

RECURSIVE Sort(_)
Sort(q) == IF q = << >> THEN << >> ELSE Insert(Sort(Tail(q)), Head(q))

\* The list as it is.
Reverse_Keep(q) == q

\* [...tracks].reverse()
Reverse(q) == [k \in DOMAIN q |-> q[Len(q) + 1 - k]]

RECURSIVE Flatten(_)
Flatten(qq) == IF qq = << >> THEN << >> ELSE Head(qq) \o Flatten(Tail(qq))

\* Buffer.from(content): the UTF-8 bytes of a string.
Utf8(str) ==
    Flatten([k \in DOMAIN str |->
                IF str[k] = "e_acute" THEN <<"0xC3", "0xA9">> ELSE <<str[k]>>])

\* Buffer.byteLength(content)
ByteLength(str) == Len(Utf8(str))

\* A resolved promise, and one rejected with new Error(msg).
Ok(v) == [err |-> "", val |-> v]

Fail(msg) == [err |-> msg, val |-> << >>]

\* sdk.channels.readChannelTracks(slug) and the `if (data.error) throw`.
ReadChannelTracks(cat) == IF cat.err # "" THEN Fail(cat.err) ELSE Ok(cat.tracks)

\* sdk.channels.readChannel(slug) and the `if (data.error) throw`.
ReadChannel(cat) ==
    IF cat.err # "" THEN Fail(cat.err)
    ELSE Ok([image |-> cat.image, created |-> 500, updated |-> 7000])

\* A find that gives the last match.
FindTrack_Last(tracks, stem) ==
    LET ordered == Reverse(tracks)
        hits == {k \in DOMAIN ordered : StemOf(ordered[k]) = stem}
    IN  IF hits = {} THEN 0 ELSE CHOOSE k \in hits : \A x \in hits : k >= x

\* orderedTracks.find(t => sanitizeFilename(t.title || "untitled") === filename):
\* the position in the reversed list, 0 when there is none.
FindTrack(tracks, stem) ==
    LET ordered == Reverse(tracks)
        hits == {k \in DOMAIN ordered : StemOf(ordered[k]) = stem}
    IN  IF hits = {} THEN 0 ELSE CHOOSE k \in hits : \A x \in hits : k <= x

TitleOr(t, dflt) == IF t.title = << >> THEN dflt ELSE t.title

\* new Date(str).toLocaleString(), shortened: "Invalid Date" of a string that
\* does not parse is "?", the text of a date is left out.
ToLocaleString(date) == IF date = NotADate THEN <<"?">> ELSE << >>

\* formatTrackContent(track), shortened: title line, the Added ("+") and
\* Updated ("~") lines when the fields are truthy, the Tags line when there
\* are tags.
FormatTrackContent(t) ==
    <<"T", ":">> \o TitleOr(t, <<"U">>)
        \o (IF t.created # Invalid THEN <<"\n", "+">> \o ToLocaleString(t.created) ELSE << >>)
        \o (IF t.updated # Invalid THEN <<"\n", "~">> \o ToLocaleString(t.updated) ELSE << >>)
        \o (IF ExtractTagsFromTrack(t) # << >>
            THEN <<"\n">> \o Flatten([k \in DOMAIN ExtractTagsFromTrack(t) |->
                                         <<"#">> \o ExtractTagsFromTrack(t)[k]])
            ELSE << >>)
        \o <<"\n">>

HelpText == <<"r", "4", "f", "u", "s", "e", "\n">>

\* ABOUT.txt, shortened to what varies: the number of tracks.
AboutText(tracks) == <<"T", "r", "a", "c", "k", "s", ":">> \o [k \in DOMAIN tracks |-> "|"] \o <<"\n">>

ImageUrl(image) == IF image # << >> THEN <<"h", ":">> \o image \o <<"\n">> ELSE << >>

\* tracks.m3u: one title line per track, in catalog order.
M3u(tracks) ==
    <<"#", "\n">> \o Flatten([k \in DOMAIN tracks |-> TitleOr(tracks[k], <<"U">>) \o <<"\n">>])

\* JSON.stringify(orderedTracks, null, 2), shortened to the titles.
TracksJson(tracks) ==
    <<"[">> \o Flatten([k \in DOMAIN tracks |-> Reverse(tracks)[k].title \o <<",">>]) \o <<"]">>

\* getFileContent(path)
GetFileContent(cat, path) ==
    LET root == Part(path, 1)
        channel == Part(path, 2)
        subdir == Part(path, 3)
        file == Part(path, 4)
        inChannel == root = Name("channels") /\ channel # None
        tr == ReadChannelTracks(cat)
        ch == ReadChannel(cat)
    IN  IF path = <<<<"HELP", ".txt">>>> THEN Ok(HelpText)
        ELSE IF inChannel /\ subdir = <<"ABOUT", ".txt">>
        THEN IF ch.err # "" THEN Fail(ch.err)
             ELSE IF tr.err # "" THEN Fail(tr.err)
             ELSE Ok(AboutText(tr.val))
        ELSE IF inChannel /\ subdir = <<"image", ".url">>
        THEN IF ch.err # "" THEN Fail(ch.err) ELSE Ok(ImageUrl(ch.val.image))
        ELSE IF inChannel /\ subdir = <<"tracks", ".m3u">>
        THEN IF tr.err # "" THEN Fail(tr.err) ELSE Ok(M3u(tr.val))
        ELSE IF inChannel /\ subdir = Name("tracks") /\ file # None
        THEN IF tr.err # "" THEN Fail(tr.err)
             ELSE IF file = <<"tracks", ".json">> THEN Ok(TracksJson(tr.val))
             ELSE IF EndsTxt(file) /\ FindTrack(tr.val, Stem(file)) # 0
             THEN Ok(FormatTrackContent(Reverse(tr.val)[FindTrack(tr.val, Stem(file))]))
             ELSE Fail("ENOENT")
        ELSE Fail("ENOENT")

\* getTimestamp(dateObj): getTime() / 1000, a number of seconds kept as whole
\* seconds and thousandths; Date.now() / 1000 for a date that is missing.
GetTimestamp(date) ==
    IF ~ValidDate(date) THEN [sec |-> NowTime, frac |-> 0]
    ELSE [sec |-> date \div 1000, frac |-> date % 1000]

\* createStat(options) with options.mtime, ctime, atime as createSafeDate
\* made them.
CreateStat(isDir, size, mtime, ctime, atime) ==
    [isDir |-> isDir, size |-> size,
     mtime |-> GetTimestamp(mtime),
     ctime |-> GetTimestamp(ctime),
     atime |-> GetTimestamp(atime)]

DirStat == CreateStat(TRUE, 0, Invalid, Invalid, Invalid)

MinOf(S) == CHOOSE x \in S : \A y \in S : x <= y

MaxOf(S) == CHOOSE x \in S : \A y \in S : x >= y

\* The directory times getattr derives from a list of tracks: earliest
\* created_at and latest updated_at of the tracks with both dates valid.
DirTimes(tracks) ==
    LET valid == {k \in DOMAIN tracks :
                     ValidDate(tracks[k].created) /\ ValidDate(tracks[k].updated)}
    IN  IF valid = {} THEN [created |-> Invalid, updated |-> Invalid]
        ELSE [created |-> MinOf({tracks[k].created : k \in valid}),
              updated |-> MaxOf({tracks[k].updated : k \in valid})]

TimedDir(times) == CreateStat(TRUE, 0, times.updated, times.created, times.updated)

Has(q, x) == \E k \in DOMAIN q : q[k] = x

\* getattr(path) below its last two branches, which rewrite /favorites and
\* /downloads sub-paths: the branches in source order, a branch that matches
\* without returning falling through to "ENOENT".
GetattrAt(cat, path) ==
    LET root == Part(path, 1)
        channel == Part(path, 2)
        subdir == Part(path, 3)
        file == Part(path, 4)
        file2 == Part(path, 5)
        inChannel == root = Name("channels") /\ channel # None
        tr == ReadChannelTracks(cat)
        ch == ReadChannel(cat)
        content == GetFileContent(cat, path)
        InTagDir(t) == Has(TagsOrUntitled(t), file)
        TrackStat(t) ==
            IF content.err # "" THEN Fail(content.err)
            ELSE Ok(CreateStat(FALSE, ByteLength(content.val), t.created, t.updated, t.updated))
    IN  IF path \in {<< >>, <<Name("channels")>>, <<Name("favorites")>>, <<Name("downloads")>>}
        THEN Ok(DirStat)
        ELSE IF path = <<<<"HELP", ".txt">>>>
        THEN Ok(CreateStat(FALSE, ByteLength(content.val), Invalid, Invalid, Invalid))
        ELSE IF inChannel /\ subdir = None
        THEN IF ch.err # "" THEN Fail(ch.err)
             ELSE Ok(TimedDir(ch.val))
        ELSE IF inChannel /\ subdir \in {Name("tracks"), Name("tags")} /\ file = None
        THEN IF tr.err # "" THEN Fail(tr.err)
             ELSE IF tr.val # << >> THEN Ok(TimedDir(DirTimes(tr.val)))
             ELSE IF ch.err # "" THEN Fail(ch.err)
             ELSE Ok(TimedDir(ch.val))
        ELSE IF inChannel /\ subdir = Name("tags") /\ file # None /\ file2 = None
        THEN IF tr.err # "" THEN Fail(tr.err)
             ELSE Ok(TimedDir(DirTimes(SelectSeq(tr.val, InTagDir))))
        ELSE IF inChannel /\ file = None
                /\ subdir \in {<<"ABOUT", ".txt">>, <<"image", ".url">>, <<"tracks", ".m3u">>}
        THEN IF content.err # "" THEN Fail(content.err)
             ELSE IF ch.err # "" THEN Fail(ch.err)
             ELSE Ok(CreateStat(FALSE, ByteLength(content.val),
                                ch.val.updated, ch.val.created, ch.val.updated))
        ELSE IF inChannel /\ subdir = Name("tracks") /\ file # None /\ file2 = None
                /\ file = <<"tracks", ".json">>
        THEN IF content.err # "" THEN Fail(content.err)
             ELSE Ok(CreateStat(FALSE, ByteLength(content.val), Invalid, Invalid, Invalid))
        ELSE IF inChannel /\ subdir = Name("tracks") /\ file # None /\ file2 = None
                /\ EndsTxt(file)
        THEN IF tr.err # "" THEN Fail(tr.err)
             ELSE IF FindTrack(tr.val, Stem(file)) # 0
             THEN TrackStat(Reverse(tr.val)[FindTrack(tr.val, Stem(file))])
             ELSE Fail("ENOENT")
        ELSE IF inChannel /\ subdir = Name("tags") /\ file # None /\ file2 # None
                /\ EndsTxt(file2)
        THEN IF tr.err # "" THEN Fail(tr.err)
             ELSE IF /\ FindTrack(tr.val, Stem(file2)) # 0
                     /\ Has(TagsOrUntagged(Reverse(tr.val)[FindTrack(tr.val, Stem(file2))]), file)
             THEN TrackStat(Reverse(tr.val)[FindTrack(tr.val, Stem(file2))])
             ELSE Fail("ENOENT")
        ELSE IF root \in {Name("favorites"), Name("downloads")} /\ channel # None
                /\ subdir = None
        THEN Ok(DirStat)
        ELSE Fail("ENOENT")

IsAlias(path) == Part(path, 1) \in {Name("favorites"), Name("downloads")} /\ Part(path, 2) # None

Opt(c) == IF c # None THEN <<c>> ELSE << >>

\* getattr(path)
Getattr(cat, path) ==
    IF IsAlias(path) /\ Part(path, 3) # None
    THEN GetattrAt(cat, <<Name("channels"), Part(path, 2), Part(path, 3)>> \o Opt(Part(path, 4)))
    ELSE GetattrAt(cat, path)

Dots == <<Name("."), Name("..")>>

\* loadFavorites() and loadDownloads(): the lists in the two text files.
LoadFavorites == << <<"a">> >>

LoadDownloads == << <<"a">>, <<"b">> >>

\* sdk.channels.readChannels(100) and the `if (data.error) throw`.
ReadChannels(cat) == IF cat.err # "" THEN Fail(cat.err) ELSE Ok(<< <<"a">>, <<"b">> >>)

\* The name readdir gives a track: sanitizeFilename(title || "untitled") + ".txt"
TrackFile(t) == Txt(StemOf(t))

\* A tag set that leaves out the tracks without tags.
TagSetOf_NoUntagged(tracks) ==
    Dedup(Flatten([k \in DOMAIN tracks |-> ExtractTagsFromTrack(tracks[k])]))

\* The tag directory names of a list of tracks, unsorted: tagSet in
\* insertion order.
TagSetOf(tracks) == Dedup(Flatten([k \in DOMAIN tracks |-> TagsOrUntagged(tracks[k])]))

\* readdir(path) below its last branch, which rewrites /favorites and
\* /downloads paths.
ReaddirAt(cat, path) ==
    LET root == Part(path, 1)
        channel == Part(path, 2)
        subdir == Part(path, 3)
        file == Part(path, 4)
        file2 == Part(path, 5)
        inChannel == root = Name("channels") /\ channel # None
        tr == ReadChannelTracks(cat)
        ordered == Reverse(tr.val)
        InTag(t) == Has(TagsOrUntagged(t), file)
    IN  IF path = << >>
        THEN Ok(Dots \o <<<<"HELP", ".txt">>, Name("channels"), Name("favorites"), Name("downloads")>>)
        ELSE IF path = <<Name("channels")>>
        THEN IF ReadChannels(cat).err # "" THEN Fail(ReadChannels(cat).err)
             ELSE Ok(Dots \o ReadChannels(cat).val)
        ELSE IF inChannel /\ subdir = None
        THEN Ok(Dots \o <<<<"ABOUT", ".txt">>, <<"image", ".url">>, <<"tracks", ".m3u">>,
                          Name("tracks"), Name("tags")>>)
        ELSE IF inChannel /\ subdir = Name("tracks") /\ file = None
        THEN IF tr.err # "" THEN Fail(tr.err)
             ELSE Ok(Dots \o <<<<"tracks", ".json">>>> \o [k \in DOMAIN ordered |-> TrackFile(ordered[k])])
        ELSE IF inChannel /\ subdir = Name("tags") /\ file = None
        THEN IF tr.err # "" THEN Fail(tr.err)
             ELSE Ok(Dots \o Sort(TagSetOf(tr.val)))
        ELSE IF inChannel /\ subdir = Name("tags") /\ file # None /\ file2 = None
        THEN IF tr.err # "" THEN Fail(tr.err)
             ELSE Ok(Dots \o [k \in DOMAIN SelectSeq(ordered, InTag) |->
                                 TrackFile(SelectSeq(ordered, InTag)[k])])
        ELSE IF path = <<Name("favorites")>>
        THEN Ok(Dots \o LoadFavorites)
        ELSE IF path = <<Name("downloads")>>
        THEN Ok(Dots \o LoadDownloads)
        ELSE Fail("ENOENT")

\* readdir(path)
Readdir(cat, path) ==
    IF IsAlias(path)
    THEN ReaddirAt(cat, <<Name("channels"), Part(path, 2)>> \o Opt(Part(path, 3)))
    ELSE ReaddirAt(cat, path)

\* A slice that always starts at the first byte.
Slice_FromStart(data, position, end) ==
    SubSeq(data, 1, IF end - position < Len(data) THEN end - position ELSE Len(data))

\* data.slice(position, position + length) of a Buffer, 0 <= position.
Slice(data, position, end) ==
    SubSeq(data, position + 1, IF end < Len(data) THEN end ELSE Len(data))

\* read(path, fd, buffer, length, position) once the path is rewritten: the
\* bytes copied into the buffer (their number is the return value).
ReadAt(cat, path, length, position) ==
    LET content == GetFileContent(cat, path)
    IN  IF content.err # "" THEN Fail(content.err)
        ELSE Ok(Slice(Utf8(content.val), position, position + length))

\* read(path, fd, buffer, length, position)
Read(cat, path, length, position) ==
    IF IsAlias(path)
    THEN ReadAt(cat, <<Name("channels"), Part(path, 2)>> \o Opt(Part(path, 3)) \o Opt(Part(path, 4)),
                length, position)
    ELSE ReadAt(cat, path, length, position)

\* ------------------------------------------------ the handlers (index.ts)
\* Paths the kernel asks about: the fixed entries, and under each of the three
\* subtrees the channel, its files and directories, track files that exist and
\* do not, tags that exist and do not, and paths that go one level too deep.
TrackFiles ==
    {<<"a", ".txt">>, Txt(UntitledName), <<"e_acute", "-", "b", ".txt">>, <<"z", ".txt">>}

TagNames == {<<"j", "z">>, UntaggedName, <<"x">>, <<"q">>}

SubPaths ==
    {<<c>> : c \in {<<"ABOUT", ".txt">>, <<"image", ".url">>, <<"tracks", ".m3u">>,
                    Name("tracks"), Name("tags"), Name("nope")}}
    \cup {<<Name("tracks"), f>> : f \in TrackFiles \cup {<<"tracks", ".json">>, Name("nope")}}
    \cup {<<Name("tracks"), <<"a", ".txt">>, Name("nope")>>,
          <<<<"ABOUT", ".txt">>, Name("nope")>>,
          <<<<"image", ".url">>, Name("nope")>>}
    \cup {<<Name("tags"), t>> : t \in TagNames}
    \cup {<<Name("tags"), t, f>> : t \in TagNames \ {<<"q">>},
                                   f \in {<<"a", ".txt">>, Txt(UntitledName), Name("nope")}}

FsPaths ==
    {<< >>, <<<<"HELP", ".txt">>>>, <<Name("nope")>>, <<Name("channels")>>,
     <<Name("favorites")>>, <<Name("downloads")>>}
    \cup {<<r, <<"a">>>> \o p : r \in {Name("channels"), Name("favorites"), Name("downloads")},
                                p \in SubPaths \cup {<< >>}}

ReadLengths == {2, MaxRead}

ReadPositions == {0, 1, MaxRead}

\* cb(errno, val) of a handler: the reply goes to the kernel.
Reply(r) ==
    /\ Cardinality(fsOut) < MaxInFlight
    /\ fsOut' = fsOut \cup {r}
    /\ UNCHANGED coreVars

\* The reply to a request: what was asked, and the arguments of cb.
Answer(op, path, length, position, res) ==
    [op |-> op, path |-> path, len |-> length, pos |-> position,
     errno |-> IF res.err # "" THEN ErrnoTS(res.err) ELSE 0, val |-> res.val]

\* The kernel takes a reply.
ReplyTaken(r) ==
    /\ r \in fsOut
    /\ fsOut' = fsOut \ {r}
    /\ UNCHANGED <<coreVars, catalog>>

\* getattr: (path, cb) => fs.getattr(path).then(attrs => cb(0, attrs))
\*                                        .catch(err => cb(errno))
FuseGetattr(path) ==
    /\ Reply(Answer("getattr", path, 0, 0, Getattr(catalog, path)))
    /\ catalog' = catalog

\* readdir: (path, cb) => fs.readdir(path).then(entries => cb(0, entries))
\*                                        .catch(err => cb(errno))
FuseReaddir(path) ==
    /\ Reply(Answer("readdir", path, 0, 0, Readdir(catalog, path)))
    /\ catalog' = catalog

\* read: fs.read(path, fd, buffer, length, position)
\*           .then(bytesRead => cb(0, bytesRead)).catch(err => cb(errno));
\* val is what read() copied into the buffer.
FuseRead(path, length, position) ==
    /\ Reply(Answer("read", path, length, position, Read(catalog, path, length, position)))
    /\ catalog' = catalog

SetattrOps == {"truncate", "chmod", "chown"}

\* A handler that asks getattr before it answers.
SetattrTS_ViaGetattr(cat, path) ==
    IF Getattr(cat, path).err # "" THEN ErrnoTS(Getattr(cat, path).err) ELSE EROFS

\* truncate / chmod / chown of index.ts: cb(-30)
SetattrTS(cat, path) == EROFS

\* truncate / chmod / chown of index.js: cb(Fuse.EROFS)
SetattrJS(cat, path) == EROFS

FuseSetattrTS(op, path) ==
    /\ Reply([op |-> op, path |-> path, len |-> 0, pos |-> 0,
              errno |-> SetattrTS(catalog, path), val |-> << >>])
    /\ catalog' = catalog

FuseSetattrJS(op, path) ==
    /\ Reply([op |-> op, path |-> path, len |-> 0, pos |-> 0,
              errno |-> SetattrJS(catalog, path), val |-> << >>])
    /\ catalog' = catalog

\* ------------------------------------------------------------ specifications
\* The steps of job j, its children reporting one of reports.
JobStepOf(j, reports) ==
    \/ FetchTracks(j)
    \/ JobReturn(j)
    \/ JobThrow(j)
    \/ SpawnChild(j)
    \/ SpawnMissing(j)
    \/ \E wrote \in BOOLEAN : ChildExit(j, wrote)
    \/ \E r \in reports : ChildClose(j, r)

\* Children that leave no text when they fail, and no I/O error after them.
QuietReports ==
    {r \in ReportSet : r.stderr = << >> /\ r.stdout = <<" ">> /\ r.fault = "none"}

JobStep(j) == JobStepOf(j, QuietReports)

Next ==
    \/ \E d \in DownloadLists : Mount(d)
    \/ \E b \in Buffers : \E n \in 0..Len(b) : FsWrite(ControlFile, b, n)
    \/ TimerFire
    \/ \E j \in DOMAIN jobs : JobStep(j)
    \/ StopBegin
    \/ \E k \in DOMAIN stops : StopAfter500(k)
    \/ \E k \in DOMAIN stops : StopAfter100(k)

\* The download pipeline under every interleaving of writes, timers, child
\* events and shutdown signals.
Spec == Init /\ [][Next]_vars

NextRun ==
    \/ \E d \in DownloadLists : Mount(d)
    \/ \E b \in Buffers : \E n \in 0..Len(b) : FsWrite(ControlFile, b, n)
    \/ TimerFire
    \/ \E j \in DOMAIN jobs : JobStep(j)

\* The pipeline while no shutdown is requested. Timers fire, and pending I/O,
\* child exits and close events arrive: the event loop runs every callback that
\* is due.
LiveSpec ==
    /\ Init
    /\ [][NextRun]_vars
    /\ WF_vars(TimerFire)
    /\ WF_vars(\E j \in DOMAIN jobs : JobStep(j))

NextFuse ==
    \/ \E d \in DownloadLists : Mount(d)
    \/ \E p \in WritePaths, b \in Buffers : \E n \in 0..Len(b) : FuseWriteJS(p, b, n)
    \/ \E p \in WritePaths, b \in Buffers : \E n \in 0..Len(b) : FuseWriteTS(p, b, n)
    \/ TimerFire
    \/ \E j \in DOMAIN jobs : JobStep(j)

\* Writes as the FUSE handlers of index.js and index.ts answer them.
SpecFuse == Init /\ [][NextFuse]_vars

NextFs ==
    \/ \E r \in fsOut : ReplyTaken(r)
    \/ \E p \in FsPaths : FuseGetattr(p)
    \/ \E p \in FsPaths : FuseReaddir(p)
    \/ \E p \in FsPaths, n \in ReadLengths, k \in ReadPositions : FuseRead(p, n, k)
    \/ \E o \in SetattrOps, p \in FsPaths : FuseSetattrTS(o, p)
    \/ \E o \in SetattrOps, p \in FsPaths : FuseSetattrJS(o, p)

\* The read-only projection as the FUSE handlers answer it, against one
\* catalog snapshot.
SpecFs == InitFs /\ [][NextFs]_vars

\* The process from mount to process.exit: nothing runs after the exit.
NextShutdown ==
    \/ Mount(<< <<"a">> >>)
    \/ ~shutdowns.exited /\ TimerFire
    \/ \E j \in DOMAIN jobs : ~shutdowns.exited /\ JobStep(j)
    \/ ~shutdowns.exited /\ StopBegin
    \/ \E k \in DOMAIN stops : ~shutdowns.exited /\ StopAfter500(k)
    \/ \E k \in DOMAIN stops : ~shutdowns.exited /\ StopAfter100(k)
    \/ \E k \in DOMAIN stops : ~shutdowns.exited /\ UnmountCall(k)
    \/ \E k \in DOMAIN stops : \E err \in BOOLEAN : ~shutdowns.exited /\ UnmountDone(k, err)
    \/ \E k \in DOMAIN stops : ~shutdowns.exited /\ Exit(k)

\* The mount, its downloads and the shutdown signals up to the exit.
SpecShutdown == Init /\ [][NextShutdown]_vars

NextRerun ==
    \/ \E d \in RerunLists : Mount(d)
    \/ TimerFire
    \/ \E j \in DOMAIN jobs : JobStepOf(j, ReportSet)

\* The jobs of a mount whose download directory holds files of earlier runs,
\* while no shutdown is requested.
SpecRerun == InitRerun /\ [][NextRerun]_vars

\* The mount and its downloads under any settings.json, while no shutdown is
\* requested.
SpecConfig == InitConfig /\ [][NextRun]_vars

\* Directories whose entries are named after track titles.
TitledDirs ==
    {<<Name("channels"), <<"a">>, Name("tracks")>>,
     <<Name("channels"), <<"a">>, Name("tags"), UntaggedName>>}

NextNames ==
    \/ \E r \in fsOut : ReplyTaken(r)
    \/ \E p \in TitledDirs : FuseReaddir(p)

\* Listings of a channel whose track has any title: readdir names the entry
\* sanitizeFilename(title or "untitled") + ".txt".
SpecNames == InitNames /\ [][NextNames]_vars

\* The text of the one track.
DatedText == <<Name("channels"), <<"a">>, Name("tracks"), <<"a", ".txt">>>>

NextDates ==
    \/ \E r \in fsOut : ReplyTaken(r)
    \/ FuseGetattr(DatedText)
    \/ \E n \in ReadLengths, k \in ReadPositions : FuseRead(DatedText, n, k)

\* The text and the stat of a track whose date fields hold anything: a date,
\* nothing, or a string that is no date.
SpecDates == InitDates /\ [][NextDates]_vars

\* ------------------------------------------------------------------ claims
NoDup(s) == \A x, y \in DOMAIN s : x # y => s[x] # s[y]

IsPrefix(s, t) == Len(s) <= Len(t) /\ \A k \in DOMAIN s : s[k] = t[k]

\* C1: under every interleaving of queueDownload calls, job completions, the
\* inter-job timer and stopDownloads, at most one downloadChannel invocation is
\* running.
C1_AtMostOneJob == Len(jobs) <= 1

\* C1 case: a job runs while two slugs enqueued meanwhile wait.
C1_Witness == Len(jobs) = 1 /\ Len(queue) = 2

\* C2: enqueueing a slug that is already in the queue leaves the queue as it is
\* (same elements, same order), and the queue never holds a slug twice.
C2_DedupOnEnqueue ==
    /\ NoDup(queue)
    /\ \A s \in Range(queue) : QueueDownload(Worker, s).queue = queue

\* C2 case: a queueDownload call found its slug waiting and pushed nothing.
C2_Witness == queue # << >> /\ enqCalls > Len(pushed)

\* C3: jobs are started in enqueue order, and a job is started only after every
\* job started before it has finished.
C3_Fifo ==
    /\ IsPrefix(startedLog, pushed)
    /\ \A j \in DOMAIN jobs : jobs[j].n = Len(startedLog)
    /\ nFinished >= Len(startedLog) - 1

\* C3 case: three slugs were enqueued and all three jobs were started, the
\* third while the second had waited behind the first.
C3_Witness == Len(startedLog) >= 3 /\ startedLog[1] # startedLog[2]

C5_NoStartAfterShutdown ==
    [][isShuttingDown =>
          /\ isShuttingDown'
          /\ startedLog' = startedLog
          /\ Len(jobs') <= Len(jobs)
          /\ (queue' = queue \/ queue' = << >> \/ IsPrefix(queue, queue'))]_vars

\* C5 case: after the flag was set processQueue ran (isProcessing was reset) and a
\* later enqueue left its slug waiting.
C5_Witness == isShuttingDown /\ ~isProcessing /\ queue # << >>

\* C6 as written: every stopDownloads call that has returned has set the flag,
\* waited the 100 ms, and left the child that was in flight terminated.
C6_StopTerminatesChild ==
    \A k \in DOMAIN stops :
        stops[k].pc = "returned"
            => isShuttingDown /\ stops[k].waited /\ ~Alive(procs, stops[k].h)

\* C7 as written: a track whose child was alive when stopDownloads ran resolves
\* with no file and is not post-processed.
C7_CancelledNotPostProcessed ==
    lastTrack.cancelled => lastTrack.res = "null" /\ ~lastTrack.post

\* C8 as written: a child gets SIGKILL only after SIGTERM, and a child that is
\* still alive after the 500 ms wait gets SIGKILL.
C8_TermThenKill ==
    /\ \A h \in DOMAIN procs :
          (\E x \in DOMAIN procs[h].sigs : procs[h].sigs[x] = "SIGKILL")
              => procs[h].sigs[1] = "SIGTERM"
    /\ \A k \in DOMAIN stops :
          (stops[k].pc \in {"wait100", "returned"} /\ stops[k].aliveAt500)
              => stops[k].killSent

C10_NonControlWriteIsEROFS ==
    (lastOp.op \in {"write_js", "write_ts"}
        /\ lastOp.path \notin {ControlFile} \cup OtherCtrlPaths)
        => lastOp.result = EROFS

IsNode(sub) ==
    \/ sub = << >>
    \/ /\ Len(sub) = 1
       /\ sub[1] \in {<<"ABOUT", ".txt">>, <<"image", ".url">>, <<"tracks", ".m3u">>,
                      Name("tracks"), Name("tags")}
    \/ Len(sub) = 2 /\ sub[1] = Name("tracks") /\ (sub[2] = <<"tracks", ".json">> \/ EndsTxt(sub[2]))
    \/ Len(sub) = 2 /\ sub[1] = Name("tags")
    \/ Len(sub) = 3 /\ sub[1] = Name("tags") /\ EndsTxt(sub[3])

SubPath(path) == SubSeq(path, 3, Len(path))

Classified(path) ==
    \/ path \in {<< >>, <<<<"HELP", ".txt">>>>, <<Name("channels")>>, <<Name("favorites")>>,
                 <<Name("downloads")>>}
    \/ /\ Len(path) >= 2
       /\ path[1] \in {Name("channels"), Name("favorites"), Name("downloads")}
       /\ IsNode(SubPath(path))

\* The file name of a track text path (under tracks/ or under a tag
\* directory), None for any other path.
TrackTextName(path) ==
    LET sub == SubPath(path)
    IN  IF Len(path) = 4 /\ sub[1] = Name("tracks") /\ EndsTxt(sub[2]) THEN sub[2]
        ELSE IF Len(path) = 5 /\ sub[1] = Name("tags") /\ EndsTxt(sub[3]) THEN sub[3]
        ELSE None

NoSuchTrack(cat, path) ==
    TrackTextName(path) # None /\ FindTrack(cat.tracks, Stem(TrackTextName(path))) = 0

\* C12, for the paths below /channels and at the top: with a catalog that
\* answers, getattr, readdir and read of a path that has no node kind, or of a
\* track text path whose stem no track has, are answered with ENOENT.
C12_UnmatchedIsENOENT ==
    catalog.err = "" =>
        \A r \in fsOut :
            (/\ r.op \in {"getattr", "readdir", "read"}
             /\ ~IsAlias(r.path)
             /\ (~Classified(r.path) \/ NoSuchTrack(catalog, r.path)))
            => r.errno = ENOENT

\* What filesystem.ts answers to the request of a reply under a catalog.
Served(cat, r) ==
    IF r.op = "getattr" THEN Getattr(cat, r.path)
    ELSE IF r.op = "readdir" THEN Readdir(cat, r.path)
    ELSE Read(cat, r.path, r.len, r.pos)

\* The request makes a catalog call: it fails with the catalog's message as
\* soon as the catalog's calls fail.
CallsCatalog(cat, r) == Served([cat EXCEPT !.err = "probe"], r).err = "probe"

\* C13: a getattr, readdir or read that makes a catalog call while the
\* catalog's calls return an error is answered with EIO, whatever the message.
C13_CatalogErrorIsEIO ==
    catalog.err # "" =>
        \A r \in fsOut :
            (r.op \in {"getattr", "readdir", "read"} /\ CallsCatalog(catalog, r))
            => r.errno = EIO

\* The path is an entry of the listing of its parent directory.
Listed(cat, path) ==
    /\ path # << >>
    /\ Readdir(cat, SubSeq(path, 1, Len(path) - 1)).err = ""
    /\ Has(Readdir(cat, SubSeq(path, 1, Len(path) - 1)).val, path[Len(path)])

\* The regular files of the projection: HELP.txt, ABOUT.txt, image.url,
\* tracks.m3u, tracks.json, and the track texts the listings show under tracks/
\* and under the tag directories.
IsTagTrackText(path) == Len(path) = 5 /\ path[3] = Name("tags") /\ EndsTxt(path[5])

ProjectedFile(cat, path) ==
    /\ Listed(cat, path)
    /\ \/ path = <<<<"HELP", ".txt">>>>
       \/ Len(path) = 3
            /\ path[3] \in {<<"ABOUT", ".txt">>, <<"image", ".url">>, <<"tracks", ".m3u">>}
       \/ Len(path) = 4 /\ path[3] = Name("tracks")
       \/ IsTagTrackText(path)

\* The bytes a read from offset 0 up to the end of the file gives.
ReadToEof(cat, path) == Read(cat, path, MaxRead, 0)

\* C14, for the files below /channels and HELP.txt: against a catalog
\* snapshot that answers, getattr of a projected regular file succeeds and its
\* size is the number of bytes read from offset 0 to the end of the file.
C14_SizeIsBytesRead ==
    catalog.err = "" =>
        \A r \in fsOut :
            (r.op = "getattr" /\ ~IsAlias(r.path) /\ ProjectedFile(catalog, r.path))
            => /\ r.errno = 0
               /\ ReadToEof(catalog, r.path).err = ""
               /\ r.val.size = Len(ReadToEof(catalog, r.path).val)

\* The bytes of the whole file behind a path below /channels or of HELP.txt.
FileBytes(cat, path) == Utf8(GetFileContent(cat, path).val)

\* Bytes [from, to) of a byte sequence that is at least `to` long, counted
\* from 0.
BytesBetween(data, from, to) == [k \in 1..(to - from) |-> data[from + k]]

\* C15: read(path, len, offset) of a file with content of length L gives the
\* bytes [offset, min(offset + len, L)) of the content, none when offset >= L.
C15_ReadIsClippedSlice ==
    \A r \in fsOut :
        (r.op = "read" /\ ~IsAlias(r.path) /\ GetFileContent(catalog, r.path).err = "")
        => LET data == FileBytes(catalog, r.path)
               L == Len(data)
               to == IF r.pos + r.len < L THEN r.pos + r.len ELSE L
           IN  /\ r.errno = 0
               /\ r.pos >= L => r.val = << >>
               /\ r.pos < L => r.val = BytesBetween(data, r.pos, to)

\* C15 case: a read from offset 1 for more bytes than the file has left, of a
\* file with a two-byte character in it.
C15_Witness ==
    \E r \in fsOut :
        /\ r.op = "read" /\ r.errno = 0 /\ ~IsAlias(r.path)
        /\ r.pos = 1 /\ r.len = MaxRead
        /\ Has(FileBytes(catalog, r.path), "0xC3")
        /\ Len(r.val) = Len(FileBytes(catalog, r.path)) - 1

\* The path below /channels that a path below /favorites or /downloads
\* stands for.
ChannelsPath(path) == <<Name("channels")>> \o Tail(path)

\* C16, with a catalog that answers: getattr, readdir and read of
\* /favorites/{slug}/p and of /downloads/{slug}/p, p not empty, are answered
\* as the same request for /channels/{slug}/p is.
C16_AliasSameAsChannels ==
    catalog.err = "" =>
        \A r \in fsOut :
            (r.op \in {"getattr", "readdir", "read"} /\ IsAlias(r.path) /\ Len(r.path) >= 3)
            => LET there == Answer(r.op, ChannelsPath(r.path), r.len, r.pos,
                                   Served(catalog, [r EXCEPT !.path = ChannelsPath(r.path)]))
               IN  /\ r.errno = there.errno
                   /\ r.errno = 0 => r.val = there.val

\* The track a track text path resolves to: the first one, oldest first, with
\* the stem of the file name.
ResolvedTrack(cat, path) ==
    Reverse(cat.tracks)[FindTrack(cat.tracks, Stem(TrackTextName(path)))]

\* A listed track text path, below tracks/ or below a directory of one of the
\* tags of the track it resolves to, of a track with both dates valid.
DatedTrackText(cat, path) ==
    /\ TrackTextName(path) # None
    /\ Listed(cat, path)
    /\ IsTagTrackText(path) => Has(TagsOrUntagged(ResolvedTrack(cat, path)), path[4])
    /\ ResolvedTrack(cat, path).created # Invalid
    /\ ResolvedTrack(cat, path).updated # Invalid

\* C17: the stat of the track text of a track with both dates valid, under
\* tracks/ and under a tag directory, has mtime = created_at in seconds and
\* ctime = atime = updated_at in seconds.
C17_TrackTextTimes ==
    catalog.err = "" =>
        \A r \in fsOut :
            (r.op = "getattr" /\ ~IsAlias(r.path) /\ DatedTrackText(catalog, r.path))
            => /\ r.errno = 0
               /\ r.val.mtime = GetTimestamp(ResolvedTrack(catalog, r.path).created)
               /\ r.val.ctime = GetTimestamp(ResolvedTrack(catalog, r.path).updated)
               /\ r.val.atime = GetTimestamp(ResolvedTrack(catalog, r.path).updated)

TagsDir == <<Name("channels"), <<"a">>, Name("tags")>>

\* The entries of a listing after "." and "..".
Entries(listing) == SubSeq(listing, 3, Len(listing))

StartsWithDots(listing) == Len(listing) >= 2 /\ SubSeq(listing, 1, 2) = Dots

\* The tags of the derived tag sets of all tracks.
DerivedTags(cat) == UNION {Range(ExtractTagsFromTrack(cat.tracks[k])) : k \in DOMAIN cat.tracks}

SomeTrackUntagged(cat) == \E k \in DOMAIN cat.tracks : ExtractTagsFromTrack(cat.tracks[k]) = << >>

\* Ascending by UTF-16 code units, no entry twice.
Ascending(q) == \A i, j \in DOMAIN q : i < j => (q[i] # q[j] /\ Before(q[i], q[j]))

\* C18 as written: the listing of /channels/C/tags is ".", ".." and the sorted
\* union of the derived tag sets, and it has the entry untagged if and only if
\* some track has an empty derived tag set.
C18_UntaggedIffSomeTrackUntagged ==
    catalog.err = "" =>
        \A r \in fsOut :
            (r.op = "readdir" /\ r.path = TagsDir)
            => /\ r.errno = 0
               /\ StartsWithDots(r.val)
               /\ Ascending(Entries(r.val))
               /\ Range(Entries(r.val)) \ {UntaggedName} = DerivedTags(catalog) \ {UntaggedName}
               /\ Has(Entries(r.val), UntaggedName) <=> SomeTrackUntagged(catalog)

\* C18, amended: the listing of /channels/C/tags is ".", ".." and, sorted, the
\* union of the derived tag sets together with untagged when some track has an
\* empty derived tag set; so it has the entry untagged if and only if some
\* track has an empty derived tag set or carries the tag untagged.
C18_TagsListing ==
    catalog.err = "" =>
        \A r \in fsOut :
            (r.op = "readdir" /\ r.path = TagsDir)
            => /\ r.errno = 0
               /\ StartsWithDots(r.val)
               /\ Ascending(Entries(r.val))
               /\ Range(Entries(r.val)) =
                      DerivedTags(catalog)
                          \cup (IF SomeTrackUntagged(catalog) THEN {UntaggedName} ELSE {})
               /\ Has(Entries(r.val), UntaggedName)
                      <=> (SomeTrackUntagged(catalog) \/ UntaggedName \in DerivedTags(catalog))

\* C18 case: the tags of a channel with a track without tags and a track with
\* two tags were listed: jz, untagged, x.
C18_Witness ==
    \E r \in fsOut :
        /\ r.op = "readdir" /\ r.path = TagsDir /\ r.errno = 0
        /\ SomeTrackUntagged(catalog)
        /\ Entries(r.val) = <<<<"j", "z">>, UntaggedName, <<"x">>>>

\* The k-th track of the catalog's list counted from its end: oldest first.
OldestFirst(cat, k) == cat.tracks[Len(cat.tracks) + 1 - k]

\* The k-th smallest element of a set of numbers.
KthOf(S, k) == CHOOSE i \in S : Cardinality({j \in S : j < i}) = k - 1

\* The file name of a track: the sanitized title, "untitled" for a track
\* without title, and ".txt".
TextName(t) == Txt(SanitizeFilename(IF t.title = << >> THEN UntitledName ELSE t.title))

\* The positions, oldest first, of the tracks a tag directory is for: the
\* derived tag set has the tag, or is empty for the directory untagged.
TracksOfTag(cat, tag) ==
    {k \in DOMAIN cat.tracks :
        \/ Has(ExtractTagsFromTrack(OldestFirst(cat, k)), tag)
        \/ tag = UntaggedName /\ ExtractTagsFromTrack(OldestFirst(cat, k)) = << >>}

IsTagDir(path) ==
    Len(path) = 4 /\ path[1] = Name("channels") /\ path[3] = Name("tags")

\* C19: the listing of /channels/C/tags/T is ".", ".." and then, oldest
\* first, one entry for each track whose derived tag set has T (or is empty,
\* for T = untagged), and no other entry.
C19_TagDirListing ==
    catalog.err = "" =>
        \A r \in fsOut :
            (r.op = "readdir" /\ IsTagDir(r.path))
            => LET members == TracksOfTag(catalog, r.path[4])
               IN  /\ r.errno = 0
                   /\ StartsWithDots(r.val)
                   /\ Len(Entries(r.val)) = Cardinality(members)
                   /\ \A k \in DOMAIN Entries(r.val) :
                          Entries(r.val)[k] = TextName(OldestFirst(catalog, KthOf(members, k)))

\* C19 case: of two tracks with the tag jz the older one, which has no title,
\* is listed before the newer one; the tag of the newer one is written Jz.
C19_Witness ==
    \E r \in fsOut :
        /\ r.op = "readdir" /\ IsTagDir(r.path) /\ r.path[4] = <<"j", "z">> /\ r.errno = 0
        /\ Len(catalog.tracks) = 2
        /\ catalog.tracks[1].title = <<"A">>
        /\ Entries(r.val) = <<Txt(UntitledName), <<"a", ".txt">>>>

TracksDir == <<Name("channels"), <<"a">>, Name("tracks")>>

\* C20: the listing of /channels/C/tracks is ".", "..", tracks.json and then,
\* oldest first, for every track one entry sanitize(title or "untitled") +
\* ".txt"; tracks with the same stem give the same entry once each.
C20_TracksListing ==
    catalog.err = "" =>
        \A r \in fsOut :
            (r.op = "readdir" /\ r.path = TracksDir)
            => /\ r.errno = 0
               /\ StartsWithDots(r.val)
               /\ Len(Entries(r.val)) = 1 + Len(catalog.tracks)
               /\ Entries(r.val)[1] = <<"tracks", ".json">>
               /\ \A k \in DOMAIN catalog.tracks :
                      Entries(r.val)[1 + k] = TextName(OldestFirst(catalog, k))

\* C20 case: the catalog has the track "a." before the older track without
\* title; the listing has untitled.txt before a.txt.
C20_Witness ==
    \E r \in fsOut :
        /\ r.op = "readdir" /\ r.path = TracksDir /\ r.errno = 0
        /\ Len(catalog.tracks) = 2
        /\ catalog.tracks[1].title = <<"a", ".">>
        /\ catalog.tracks[2].title = << >>
        /\ Entries(r.val) = <<<<"tracks", ".json">>, Txt(UntitledName), <<"a", ".txt">>>>

IsTrackText(path) ==
    Len(path) = 4 /\ path[1] = Name("channels") /\ path[3] = Name("tracks") /\ EndsTxt(path[4])

\* The positions, oldest first, of the tracks whose file name is the name.
WithName(cat, name) == {k \in DOMAIN cat.tracks : TextName(OldestFirst(cat, k)) = name}

\* The first of them.
FirstWithName(cat, name) == OldestFirst(cat, KthOf(WithName(cat, name), 1))

\* C21: getattr and read of /channels/C/tracks/S.txt both use the first
\* track, oldest first, whose sanitize(title or "untitled") is S: the stat has
\* that track's times and the size of its text, the read gives its text.
C21_FirstMatchForBoth ==
    catalog.err = "" =>
        \A r \in fsOut :
            (IsTrackText(r.path) /\ WithName(catalog, r.path[4]) # {})
            => LET t == FirstWithName(catalog, r.path[4])
                   text == Utf8(FormatTrackContent(t))
               IN  /\ r.op = "getattr" =>
                          /\ r.errno = 0
                          /\ r.val.size = Len(text)
                          /\ r.val.mtime = GetTimestamp(t.created)
                          /\ r.val.ctime = GetTimestamp(t.updated)
                   /\ r.op = "read" =>
                          /\ r.errno = 0
                          /\ IsPrefix(r.val, SubSeq(text, r.pos + 1, Len(text)))
                          /\ (r.pos = 0 /\ r.len = MaxRead) => r.val = text

\* C21 case: two tracks with different titles and texts share the stem a, and
\* the whole file a.txt was read: the text of the older one.
C21_Witness ==
    \E r \in fsOut :
        /\ r.op = "read" /\ IsTrackText(r.path) /\ r.path[4] = <<"a", ".txt">>
        /\ r.pos = 0 /\ r.len = MaxRead /\ r.errno = 0
        /\ Len(catalog.tracks) = 2
        /\ catalog.tracks[1].title = <<"A">> /\ catalog.tracks[2].title = <<"a", ".">>
        /\ r.val = Utf8(FormatTrackContent(catalog.tracks[2]))
        /\ r.val # Utf8(FormatTrackContent(catalog.tracks[1]))

\* The stems of the track texts a listing names.
TextStems(listing) == {Stem(listing[k]) : k \in {j \in DOMAIN listing : EndsTxt(listing[j])}}

\* The listings given for the directories named after track titles.
NameListings == {r \in fsOut : r.op = "readdir" /\ r.errno = 0 /\ r.path \in TitledDirs}

LeadingHyphen(str) == str # << >> /\ str[1] = "-"

TrailingHyphen(str) == str # << >> /\ str[Len(str)] = "-"

DoubleHyphen(str) == \E k \in 1..(Len(str) - 1) : str[k] = "-" /\ str[k + 1] = "-"

\* C22: for every title, sanitize(title) has no leading hyphen, no trailing
\* hyphen and no two hyphens in a row, titles longer than the length limit
\* included.
C22_NoStrayHyphens ==
    \A r \in NameListings : \A stem \in TextStems(r.val) :
        ~LeadingHyphen(stem) /\ ~TrailingHyphen(stem) /\ ~DoubleHyphen(stem)

\* C23: sanitize is idempotent: sanitizing the name it gave for any title
\* gives that name again.
C23_Idempotent ==
    \A r \in NameListings : \A stem \in TextStems(r.val) :
        SanitizeFilename(stem) = stem

\* The listings given when the only track has this title.
ListingsFor(title) == {r \in NameListings : catalog.tracks[1].title = title}

ArtistThreeHyphens ==
    <<"a", "r", "t", "i", "s", "t", "-", "-", "-", "s", "o", "n", "g", "-",
      "t", "i", "t", "l", "e">>

ArtistOneHyphen ==
    <<"a", "r", "t", "i", "s", "t", "-", "s", "o", "n", "g", "-", "t", "i", "t", "l", "e">>

C25_SpecialsRemoved ==
    \A r \in ListingsFor(TrackSpecial) : TextStems(r.val) = {<<"t", "r", "a", "c", "k">>}

\* The tracks before track i of job J that had a matching file when the job
\* listed tracksDir, and the ones that had none.
PresentBefore(J) == {k \in 1..(J.i - 1) : k \in J.existing}

MissingBefore(J) == {k \in 1..(J.i - 1) : k \notin J.existing}

\* C26: a track with a matching file in tracksDir is never handed to the
\* downloader and is counted as skipped: the track a job is downloading has no
\* such file, the skipped counter is the number of tracks passed that had one,
\* and every other track passed was downloaded and counted once; with two of
\* three tracks present the job ends with 2 skipped and 1 downloaded or failed.
C26_ExistingSkipped ==
    \A j \in DOMAIN jobs :
        LET J == jobs[j]
        IN  /\ J.pc \in {"settings", "child"} => J.i \notin J.existing
            /\ J.pc # "fetch" =>
                   /\ J.existing \subseteq files[J.slug]
                   /\ J.skipped = Cardinality(PresentBefore(J))
                   /\ J.success + J.failed = Cardinality(MissingBefore(J))
            /\ (J.pc = "playlist" /\ TracksOf(J.slug) = 3 /\ Cardinality(J.existing) = 2)
                   => J.skipped = 2 /\ J.success + J.failed = 1

\* C26 case: channel c has three tracks, two had files, the third was
\* downloaded: the job ends with 1 downloaded, 2 skipped, 0 failed.
C26_Witness ==
    \E j \in DOMAIN jobs :
        /\ jobs[j].slug = <<"c">> /\ jobs[j].pc = "playlist"
        /\ Cardinality(jobs[j].existing) = 2
        /\ jobs[j].success = 1 /\ jobs[j].skipped = 2 /\ jobs[j].failed = 0

\* The close event of a child of job j that reported r.
ClosedWith(j, r) == r \in ReportSet /\ ChildClose(j, r)

\* C27 as stated: when the downloader exits non-zero and its output has the
\* "has already been downloaded" marker for the track's file, which is in
\* tracksDir, the track is post-processed and the skipped counter, not the
\* downloaded or the failed counter, goes up.
C27_MarkerIsSkipped ==
    [][\A j \in DOMAIN jobs : \A r \in ReportSet :
          (ClosedWith(j, r) /\ r.code # 0 /\ r.marker /\ jobs[j].i \in files[jobs[j].slug])
              => /\ lastTrack'.out = "skipped" /\ lastTrack'.post
                 /\ jobs'[j].success = jobs[j].success
                 /\ jobs'[j].failed = jobs[j].failed]_vars

\* The message the close handler rejects with for the texts of r.
ExpectedMsg(r) ==
    IF r.stderr = <<" ", "E", "\n">> THEN <<"E">>
    ELSE IF r.stdout = <<"O", "\n">> THEN <<"O">>
    ELSE <<"yt-dlp", " exited with code ", "1">>

\* C28: when the downloader exits non-zero without the marker, the track is
\* recorded as failed with the trimmed stderr as message (the trimmed stdout
\* if that is empty, the exit-code text if both are), the failed counter goes
\* up by one and no other counter moves, and the job goes on to the next track.
C28_FailureRecorded ==
    [][\A j \in DOMAIN jobs : \A r \in ReportSet :
          (ClosedWith(j, r) /\ r.code # 0 /\ ~r.marker)
              => /\ lastTrack'.res = "reject" /\ lastTrack'.out = "failed"
                 /\ ~lastTrack'.post
                 /\ lastTrack'.msg = ExpectedMsg(r)
                 /\ Len(jobs') = Len(jobs)
                 /\ jobs'[j].failed = jobs[j].failed + 1
                 /\ jobs'[j].success = jobs[j].success
                 /\ jobs'[j].skipped - jobs[j].skipped =
                        Cardinality(PresentBefore(jobs'[j])) - Cardinality(PresentBefore(jobs[j]))
                 /\ jobs'[j].i > jobs[j].i
                 /\ jobs'[j].pc = IF jobs'[j].i > TracksOf(jobs[j].slug)
                                  THEN "playlist" ELSE "settings"]_vars

\* C28 case: a child failed with " E\n" on stderr, the track was counted as
\* failed with the message "E", and the job is at its next track.
C28_Witness ==
    /\ lastTrack.res = "reject" /\ lastTrack.out = "failed" /\ lastTrack.msg = <<"E">>
    /\ \E j \in DOMAIN jobs :
           jobs[j].failed = 1 /\ jobs[j].pc = "settings" /\ jobs[j].i > 1

\* C29 as stated: when the downloader binary is not found, the job records a
\* "not installed" error of its own, the track is not counted as failed, and
\* the job hands no further track to the downloader.
C29_MissingIsJobFatal ==
    [][\A j \in DOMAIN jobs :
          SpawnMissing(j)
              => /\ lastTrack'.msg = NotFoundMsg
                 /\ jobs'[j].failed = jobs[j].failed
                 /\ jobs'[j].pc # "settings"]_vars

\* One of the two directories is the other or lies inside it.
Overlap(p, q) == IsPrefix(p, q) \/ IsPrefix(q, p)

\* C30 as stated: the mount never proceeds with a download root and a mount
\* point one of which equals or contains the other.
C30_NoOverlapWhenMounted ==
    mounted => ~Overlap(config.mountPoint, config.downloadDir)

\* A stopDownloads call is under way: it has set the flag and has not returned.
Stopping == \E k \in DOMAIN stops : stops[k].pc # "returned"

\* C31 as stated: once stopDownloads has been called no downloader is spawned;
\* the running job does not go on to its remaining tracks. Read in the code's
\* favour: while the call is under way, before the process can have exited.
C31_NoSpawnAfterStop ==
    [][(isShuttingDown /\ Stopping) => DOMAIN procs' \subseteq DOMAIN procs]_vars

\* The children that are running.
AliveChildren == {h \in DOMAIN procs : procs[h].st = "alive"}

\* C32 as stated: at most one downloader child is alive at any time, and
\* currentDownloadProcess tracks it: while a child is alive the handle is that
\* child, and a handle that is set refers to a child whose close event has not
\* come yet.
C32_HandleTracksChild ==
    /\ Cardinality(AliveChildren) <= 1
    /\ \A h \in AliveChildren : currentDownloadProcess = h
    /\ currentDownloadProcess # NoProc => currentDownloadProcess \in DOMAIN procs

\* The entry is named as a regular file.
FileEntry(c) == c # << >> /\ c[Len(c)] \in {".txt", ".url", ".m3u", ".json"}

\* C33 as stated: against a catalog snapshot that answers, every entry a
\* listing names resolves: getattr of the entry below the listed directory
\* succeeds, and so does read when the entry is a file; entries of tag
\* directories and below /favorites and /downloads included.
C33_ListedResolves ==
    catalog.err = "" =>
        \A r \in fsOut :
            Listed(catalog, r.path) =>
                /\ r.op = "getattr" => r.errno = 0
                /\ (r.op = "read" /\ FileEntry(r.path[Len(r.path)])) => r.errno = 0


\* C34 as stated: when the downloader succeeds, the file is in tracksDir and a
\* step of the post-processing chain (ID3 write, utimes, tag-directory creation
\* or symlink creation) fails, the track still counts as downloaded: the
\* downloaded counter goes up by one and the failed counter does not move.
C34_PostFailureKeepsOutcome ==
    [][\A j \in DOMAIN jobs : \A r \in ReportSet :
          (r.code = 0 /\ r.fault # "none" /\ jobs[j].i \in files[jobs[j].slug]
                      /\ ClosedWith(j, r))
              => /\ lastTrack'.out = "downloaded"
                 /\ jobs'[j].success = jobs[j].success + 1
                 /\ jobs'[j].failed = jobs[j].failed]_vars


\* The tracks job J has counted.
Counted(J) == J.success + J.skipped + J.failed

\* C35: a job over a non-empty list of N tracks counts every track in exactly
\* one of the three counters: while it is at track i the counters add up to
\* i - 1, and when it has run through the list (it is about to write the
\* playlist) downloaded + skipped + failed = N.
C35_CountersSumToN ==
    \A j \in DOMAIN jobs :
        LET J == jobs[j]
        IN  TracksOf(J.slug) > 0 =>
                /\ J.pc \in {"settings", "child"} => Counted(J) = J.i - 1
                /\ J.pc = "playlist" => Counted(J) = TracksOf(J.slug)

\* C35 case: the job over the three tracks of channel c has run through the
\* list with one track downloaded, one skipped and one failed.
C35_Witness ==
    \E j \in DOMAIN jobs :
        /\ jobs[j].slug = <<"c">> /\ jobs[j].pc = "playlist"
        /\ jobs[j].success = 1 /\ jobs[j].skipped = 1 /\ jobs[j].failed = 1


\* The stopDownloads calls that have not returned.
StopsRunning == {k \in DOMAIN stops : stops[k].pc # "returned"}

\* C36 as stated: shutdown runs at most once per process: when SIGINT and
\* SIGTERM are both delivered, no two stopDownloads calls are under way at the
\* same time, no two unmount calls wait for their callback at the same time,
\* and fuse.unmount is called at most once.
C36_ShutdownOnce ==
    /\ Cardinality(StopsRunning) <= 1
    /\ Cardinality({k \in DOMAIN shutdowns.pc : shutdowns.pc[k] = "unmounting"}) <= 1
    /\ shutdowns.unmountCalls <= 1


\* The tracks a tag directory is for that have both dates valid.
DatedOfTag(cat, tag) ==
    {k \in TracksOfTag(cat, tag) :
        OldestFirst(cat, k).created # Invalid /\ OldestFirst(cat, k).updated # Invalid}

\* C37 as stated: getattr of /channels/C/tags/T gives a directory whose ctime
\* is the earliest created_at and whose mtime and atime are the latest
\* updated_at over the tracks whose derived tag set has T (is empty, for
\* T = untagged), and the wall-clock time only when none of those tracks has
\* valid dates.
C37_TagDirTimes ==
    catalog.err = "" =>
        \A r \in fsOut :
            (r.op = "getattr" /\ IsTagDir(r.path))
            => LET dated == DatedOfTag(catalog, r.path[4])
                   created == MinOf({OldestFirst(catalog, k).created : k \in dated})
                   updated == MaxOf({OldestFirst(catalog, k).updated : k \in dated})
               IN  /\ r.errno = 0
                   /\ r.val.isDir
                   /\ dated # {} =>
                          /\ r.val.ctime = GetTimestamp(created)
                          /\ r.val.mtime = GetTimestamp(updated)
                          /\ r.val.atime = GetTimestamp(updated)
                   /\ dated = {} =>
                          /\ r.val.ctime.sec = NowTime
                          /\ r.val.mtime.sec = NowTime
                          /\ r.val.atime.sec = NowTime


\* The text has the line that starts with the mark.
HasLine(text, mark) ==
    \E k \in DOMAIN text : k < Len(text) /\ text[k] = "\n" /\ text[k + 1] = mark

\* C38 as stated: the text of a track has the Added line only when created_at
\* is a valid date and the Updated line only when updated_at is one; with
\* created_at "" and updated_at "not a date" it has neither line.
C38_DateLinesOnlyForDates ==
    \A r \in fsOut :
        (r.op = "read" /\ r.errno = 0 /\ r.pos = 0 /\ r.len = MaxRead /\ r.path = DatedText)
        => /\ HasLine(r.val, "+") => ValidDate(catalog.tracks[1].created)
           /\ HasLine(r.val, "~") => ValidDate(catalog.tracks[1].updated)


\* The time the stamping is to give for a date field of the record.
DateOrWallClock(date) == IF ValidDate(date) THEN date ELSE NowTime

\* C39 as stated: when the post-processing chain stamps the file of a track
\* (utimes itself meets no I/O error), the file's mtime is the track's
\* created_at and its atime the track's updated_at, the wall-clock time taking
\* the place of a date that is absent or invalid.
C39_StampedWithTrackDates ==
    [][\A j \in DOMAIN jobs : \A r \in ReportSet :
          (lastTrack'.post /\ r.fault # "utimes" /\ ClosedWith(j, r))
              => /\ lastTrack'.stamp.mtime =
                        DateOrWallClock(TrackDates(jobs[j].slug, jobs[j].i).created)
                 /\ lastTrack'.stamp.atime =
                        DateOrWallClock(TrackDates(jobs[j].slug, jobs[j].i).updated)]_vars


\* C40 as stated: when a job over a non-empty track list has completed, the
\* playlist of its channel is the file playlist.m3u directly under the
\* channel directory, not under tracks/, with one #EXTINF line per track in
\* catalog order.
C40_PlaylistInChannelDir ==
    [][\A j \in DOMAIN jobs :
          (jobs[j].pc = "playlist" /\ JobReturn(j))
              => \E f \in playlists' :
                     /\ f.path = config.downloadDir \o jobs[j].slug \o <<"playlist.m3u">>
                     /\ Len(f.entries) = TracksOf(jobs[j].slug)
                     /\ \A i \in DOMAIN f.entries : f.entries[i].extinf = i]_vars

====
